---------------------------- MODULE MCUartHandler ----------------------------
EXTENDS UartHandler

CONSTANTS a, u

const_Letters == {a, u}
const_Others == {<<a>>}
const_Updates == {<<u>>}
=============================================================================
