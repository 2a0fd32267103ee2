---------------------------- MODULE RedisStream ----------------------------
(***************************************************************************)
(* A Redis stream as the services use it.  Entries get consecutive ids     *)
(* (here: their index in "log", which remembers every entry ever added);   *)
(* the server still holds those from "first" on.                           *)
(*                                                                         *)
(* XADD ... MAXLEN ~ n (ingestion/main.go:119-128, backfill.go:116-125)    *)
(* trims approximately: it may keep more than n entries, never fewer, and  *)
(* chooses how many to drop.                                               *)
(***************************************************************************)
LOCAL INSTANCE Integers
LOCAL INSTANCE Sequences

EmptyStream == [log |-> <<>>, first |-> 1]

\* The last id handed out; 0 when nothing was ever added.
LastId(st) == Len(st.log)

\* The possible results of XADD stream MAXLEN ~ maxLen * entry.
XAdd(st, entry, maxLen) ==
  { [log |-> Append(st.log, entry), first |-> f] :
      f \in { g \in st.first .. (LastId(st) + 1) :
                g = st.first \/ LastId(st) + 2 - g >= maxLen } }

\* The ids XREAD ... STREAMS key lastId can return, oldest first: entries that
\* were trimmed before they were read are skipped without a trace.
Readable(st, lastId) == { i \in 1 .. LastId(st) : i > lastId /\ i >= st.first }
=============================================================================
