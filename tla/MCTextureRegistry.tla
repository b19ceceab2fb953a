-------------------------- MODULE MCTextureRegistry --------------------------
\* Two slots, generations up to four, two mips, three transfers.
EXTENDS TextureRegistry
=============================================================================
