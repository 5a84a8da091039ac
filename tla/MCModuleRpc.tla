----------------------------- MODULE MCModuleRpc -----------------------------
EXTENDS ModuleRpc
=============================================================================
