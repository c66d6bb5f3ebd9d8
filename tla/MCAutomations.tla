---------------------------- MODULE MCAutomations ----------------------------
(* One automation, run on every day or once. *)
EXTENDS Automations
CONSTANT a1
NoneOnce == {}
AllOnce  == Automation

\* A button pressed while the daemon runs: left to neither of the two alone.
Engaged == {ledger[r].by : r \in RunId} \cup {w \in Runner : job[w].pc # "idle"}
Apart   == ~({"button", "daemon"} \subseteq Engaged)

\* The run is attached, its turn is settled when it ends, no other turn is.
Own(r) == \/ r \in active <=> \/ ledger[r].by = "daemon"
                              \/ turn[r] \in {"none", "running", "dead"}
          \/ \E w \in Runner : job[w].run = r /\ job[w].pc = "open"

OneRun == Len(ledger) < 2

\* Either one run and any turns, or two runs with their own turns that are not
\* ten minutes old.
Scenarios ==
    /\ Apart
    /\ OneRun \/ (old = {} /\ \A r \in RunId : Own(r))

\* Either one run, which a turn of the user may settle if it is the daemon's,
\* with an edit or the end of a process, or two runs and the end of a process.
OneFault ==
    /\ edits + crashes < 2
    /\ crashes = 0 => old = {}
    /\ \A r \in RunId : Own(r) \/ (OneRun /\ ledger[r].by = "daemon")
    /\ OneRun \/ (edits = 0 /\ old = {})
=============================================================================
