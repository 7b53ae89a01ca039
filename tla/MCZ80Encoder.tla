---------------------------- MODULE MCZ80Encoder ----------------------------
EXTENDS Z80Encoder
CONSTANTS loop, bss_start
MCNames == {loop, bss_start}
MCBytes == {3}
=============================================================================
