----------------------------- MODULE MCHttpServer -----------------------------
EXTENDS HttpServer, TLC
=============================================================================
