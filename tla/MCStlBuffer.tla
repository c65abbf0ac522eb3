---------------------------- MODULE MCStlBuffer ----------------------------
EXTENDS StlBuffer

\* Two pages of two sectors in a group: a full page and half of the next, a full
\* page, the halves of the second page, and a write across the border of a group
\* with a full page in front of it, a full page and half of the next behind it.
MCRequests == {<<0, 3>>, <<0, 2>>, <<2, 1>>, <<3, 1>>, <<2, 5>>}

=============================================================================
