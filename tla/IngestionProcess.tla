-------------------------- MODULE IngestionProcess --------------------------
(***************************************************************************)
(* Ingestion with its HTTP helper: KlineIngestion has one step for the     *)
(* answer to a history request; here the backfill goroutine goes through   *)
(* retryableGet, attempt by attempt and sleep by sleep, while the other    *)
(* goroutine reads live frames and minutes pass.  The end time of the      *)
(* request was fixed before the first attempt (backfill.go:40-47).         *)
(***************************************************************************)
EXTENDS KlineIngestion, RetryableGet

pvars == << ivars, vars >>

PInit == IInit /\ Init

\* Everything but the backfill goroutine.
LiveStep == (Exchange \/ Start \/ Dial \/ ReadFrame) /\ UNCHANGED vars

\* A goroutine makes its first call.
Spawn == SpawnBackfill /\ Fresh(1)

\* The call of the goroutine ends with the process.
Die == Exit /\ Fresh(1)

\* retryableGet at work.
Get ==
  /\ bf.at = "request"
  /\ Iterate \/ Exhausted \/ Request
  /\ UNCHANGED ivars

\* It has returned a body or an error.
Answered ==
  /\ at = "returned"
  /\ \/ result = "ok" /\ (FetchOk \/ ParseError)
     \/ result # "ok" /\ FetchFailed
  /\ NextCall

AroundRequest == (BeginSymbol \/ GiveUp \/ PushRow \/ MarkDone) /\ UNCHANGED vars

Goroutine == Get \/ Answered \/ AroundRequest

PNext == LiveStep \/ Spawn \/ Die \/ Goroutine

\* As in KlineIngestion; a sleep is finite and so is a call (30 s).
PFairness == WF_pvars(Dial /\ UNCHANGED vars) /\ WF_pvars(Spawn)
             /\ WF_pvars(ReadFrame /\ UNCHANGED vars) /\ WF_pvars(Goroutine)

PSpec == PInit /\ [][PNext]_pvars /\ PFairness

=============================================================================
