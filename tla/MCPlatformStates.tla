-------------------------- MODULE MCPlatformStates --------------------------
EXTENDS PlatformStates, TLC
=============================================================================
