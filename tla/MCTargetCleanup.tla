--------------------------- MODULE MCTargetCleanup ---------------------------
EXTENDS TargetClaims, TLC

CONSTANTS t1, t2, c1, s1, s2, k1

TwoTables == <<"subdomain", "vulnerability">>
OneTable == <<"subdomain">>
=============================================================================
