----------------------------- MODULE MC_AtaPio -----------------------------
\* AtaPio on a drive of two blocks of two sectors each (see MC_AtaPio.cfg).
EXTENDS AtaPio
=============================================================================
