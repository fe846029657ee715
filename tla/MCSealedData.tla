------------------------------ MODULE MCSealedData -------------------------------
(* Two seals of texts of up to two bytes, two of which are too long together, and *)
(* a host that writes often enough to change two fields while a buffer is read.   *)
EXTENDS SealedData

MCAddText == {<< >>, <<0>>}
MCText == {<< >>, <<0>>, <<0, 1>>}
================================================================================
