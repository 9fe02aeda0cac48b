---- MODULE Slices ----
(***************************************************************************)
(* Python's slice s[a:b] of a sequence, for 0 <= a: it never reaches past  *)
(* the end.                                                                *)
(***************************************************************************)
LOCAL INSTANCE Naturals
LOCAL INSTANCE Sequences

Slice(s, a, b) == SubSeq(s, a + 1, IF b < Len(s) THEN b ELSE Len(s))
====
