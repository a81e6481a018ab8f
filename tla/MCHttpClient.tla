---------------------------- MODULE MCHttpClient ----------------------------
EXTENDS HttpClient
CONSTANTS r1, r2, r3, r4
=============================================================================
