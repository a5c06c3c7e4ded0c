----------------------------- MODULE MCIngestion -----------------------------
\* Instances of Ingestion for TLC: see the MCIngestion*.cfg files.
EXTENDS Ingestion
=============================================================================
