-------------------------------- MODULE MCRilSap --------------------------------
\* Two requests at a time with one token between them; of the methods the one
\* that copies its command, the one whose answer has no result, and one whose
\* result is converted.
EXTENDS RilSap

MCMethods == {apduReq, disconnectReq, setTransferProtocolReq}
================================================================================
