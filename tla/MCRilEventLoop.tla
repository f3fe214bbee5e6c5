--------------------------- MODULE MCRilEventLoop ---------------------------
\* Two threads and the callbacks themselves ask for callbacks, three at a time.
EXTENDS RilEventLoop
=============================================================================
