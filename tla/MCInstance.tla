------------------------------ MODULE MCInstance ------------------------------
EXTENDS Instance
===============================================================================
