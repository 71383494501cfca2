------------------------------ MODULE MCFrames ------------------------------
(* Five frames of memory, four bits to a word: a region may reach one      *)
(* frame past memory and cross a word, and __usedblocks may wrap.          *)
EXTENDS Frames

RequestCounts == 0 .. 3
=============================================================================
