------------------------------- MODULE MCMouse -------------------------------
EXTENDS Mouse
\* Right and down with the button released; left and up with it held, in bytes that
\* would pass for flags (8), for an overflow (255) or for nothing (1); an overflow.
MCReports == {<<8 + 32, 1, 255>>, <<9 + 16, 255, 8>>, <<8 + 64, 255, 8>>}
MCButtonArea == {<<0, 0>>, <<1, 0>>}
=============================================================================
