-------------------------------- MODULE MCPanels --------------------------------
EXTENDS Panels

OneGpr    == <<"RAX">>
TwoStates == { [ value |-> 1, occupied |-> {} ], [ value |-> 2, occupied |-> {1} ] }
===============================================================================
