---------------------------- MODULE MCQueryPaging ----------------------------
\* QueryPaging on small instances.
EXTENDS QueryPaging
=============================================================================
