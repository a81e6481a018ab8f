-------------------------- MODULE MCKubectlTunnel --------------------------
EXTENDS KubectlTunnel
CONSTANTS t1, t2
=============================================================================
