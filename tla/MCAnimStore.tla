----------------------------- MODULE MCAnimStore -----------------------------
(* Instances of AnimStore for TLC: pages of two packs, so that a sector of *)
(* three begins and ends in the middle of a page.                          *)
EXTENDS AnimStore

MCPageSize == [z \in Zones |-> 2]
MCLastPack == [z \in Zones |-> 1]
MCKeyUpload  == {<<"key", 1>>}
MCHeadUpload == {<<"head", 1>>}
=============================================================================
