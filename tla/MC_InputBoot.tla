---------------------------- MODULE MC_InputBoot ----------------------------
\* InputBoot with a few keys and movements (see MC_InputBoot.cfg).
EXTENDS InputBoot
=============================================================================
