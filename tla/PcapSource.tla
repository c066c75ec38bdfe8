----------------------------- MODULE PcapSource -----------------------------
(***************************************************************************)
(* The reader of capture files (src/src/pcap_source.c).  A file is the     *)
(* byte order its first word tells and its records; of a record only what  *)
(* the reader and its callers tell apart is kept:                          *)
(*                                                                         *)
(*   "frame"  a REAC frame          "other"  another whole packet          *)
(*   "big"    longer than the caller's buffer                              *)
(*   "empty"  of length zero        "cut"    the file ends inside it       *)
(*                                                                         *)
(* The FILE is the number of the record it stands before, or NULL.         *)
(***************************************************************************)
EXTENDS Integers, Sequences, FiniteSetsExt

NULL  == 0
Kinds == {"frame", "other", "big", "empty", "cut"}

(* Either byte order is read; anything else, a file too short for its      *)
(* header and a name that cannot be opened are refused.                    *)
pcap_source_open(path) == IF path.magic \in {"native", "swapped"} THEN 1 ELSE NULL

(* Records from f on that do not fit the buffer are skipped.               *)
Whole(file, f) == {p \in f .. Len(file.recs) : file.recs[p].kind # "big"}

(* Fault: a record that does not fit is answered as the end is.            *)
AnswerBigEnds(file, f) ==
  IF f = NULL THEN "error"
  ELSE IF f > Len(file.recs) THEN "eof"
  ELSE CASE file.recs[f].kind \in {"empty", "big"} -> "eof"
         [] file.recs[f].kind = "cut" -> "error"
         [] OTHER -> "record"

(* What a call answers: the record read, the end (0), or an error (-1).    *)
Answer(file, f) ==
  IF f = NULL THEN "error"
  ELSE IF Whole(file, f) = {} THEN "eof"
  ELSE CASE file.recs[Min(Whole(file, f))].kind = "empty" -> "eof"
         [] file.recs[Min(Whole(file, f))].kind = "cut"   -> "error"
         [] OTHER -> "record"

(* The record a call stops at, and where the file stands afterwards: a     *)
(* record that is cut off uses up the rest of the file.                    *)
Stop(file, f) == IF Whole(file, f) = {} THEN Len(file.recs) + 1 ELSE Min(Whole(file, f))

(* Fault: the file stays where it is at a record that is cut off.          *)
RetryCut(file, f) ==
  IF f = NULL THEN NULL
  ELSE IF Stop(file, f) > Len(file.recs) \/ file.recs[Stop(file, f)].kind = "cut"
       THEN Stop(file, f)
       ELSE Stop(file, f) + 1

pcap_source_next(file, f) ==
  IF f = NULL THEN NULL
  ELSE IF Stop(file, f) > Len(file.recs) THEN Stop(file, f)
  ELSE Stop(file, f) + 1
=============================================================================
