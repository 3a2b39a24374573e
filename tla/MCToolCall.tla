------------------------------ MODULE MCToolCall ------------------------------
EXTENDS ToolCall

\* Every switch of the configuration, with all plugins or none.
MCConfigs ==
    [read_only : BOOLEAN, enforce : BOOLEAN, autofill : BOOLEAN, admin_tools : {TRUE},
     plugins : {{}, {"checklists", "products", "crm", "dmsf", "agile", "tags"}}]
===============================================================================
