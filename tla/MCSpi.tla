-------------------------------- MODULE MCSpi --------------------------------
\* Bytes of two bits; the core can select two of the three channels.
EXTENDS Spi
==============================================================================
