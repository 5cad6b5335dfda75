----------------------------- MODULE MCHiveSync -----------------------------
EXTENDS HiveSync
MCBlocks == 0..1
=============================================================================
