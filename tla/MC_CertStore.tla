---------------------------- MODULE MC_CertStore ----------------------------
\* cert_store_load run by a small set of threads.
EXTENDS CertStore, TLC
=============================================================================
