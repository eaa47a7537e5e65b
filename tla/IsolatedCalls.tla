--------------------------- MODULE IsolatedCalls ---------------------------
(***************************************************************************)
(* What a driver keeps to for its callers, without its handles, pools,     *)
(* connections and dialects: each call works for itself. A statement takes *)
(* effect at once, the statements of a transaction all together or not at  *)
(* all, and nothing that took effect is ever undone. A call told of its    *)
(* success has all it wrote in effect, unless PostgreSQL dropped it; one   *)
(* told of a failure has nothing, unless it was a compound write, which    *)
(* may have left any part or all, or an import, which may have left its    *)
(* table without rows.                                                     *)
(***************************************************************************)
CONSTANTS
    Call,
    writesOf    \* writesOf[c]: what call c may write

VARIABLES
    phase,      \* how far each call is, and what it was told
    working,    \* what each call has written in its open transaction
    durable     \* what has taken effect

icVars == <<phase, working, durable>>

(* What a call can ask for. A compound write takes more than one step; a   *)
(* test opens a connection and writes nothing; a control is a BEGIN,       *)
(* COMMIT or ROLLBACK sent as a statement.                                 *)
Asked == {"read", "write", "compound", "control", "transaction", "import", "test"}

(* applied: its compound write took effect and it was not told yet;        *)
(* inside: its transaction is open; broken: and one of its statements has  *)
(* failed; lost: its connection was closed; ended: its function has ended  *)
(* the transaction itself and goes on; dropped: told of a success although *)
(* its broken transaction was undone.                                      *)
Phase == {"idle"} \cup Asked
         \cup {"applied", "inside", "broken", "lost", "ended", "succeeded", "dropped", "failed"}

ICInit ==
    /\ phase = [c \in Call |-> "idle"]
    /\ working = [c \in Call |-> {}]
    /\ durable = {}

(* Where a call can go while nothing is written for it. Only what writes   *)
(* nothing succeeds so, and nothing in an open transaction does.           *)
Onward(p) ==
    CASE p = "idle" -> Asked \cup {"failed"}
      [] p \in {"read", "control", "test", "ended", "applied"} -> {"succeeded", "failed"}
      [] p \in {"write", "compound", "transaction", "import", "lost"} -> {"failed"}
      [] p \in {"inside", "broken"} -> {"lost"}
      [] OTHER -> {}

(* Any number of calls go on, when a backend opens or a pool is closed;    *)
(* a transaction that loses its connection is undone.                      *)
Pass ==
    /\ phase' \in [Call -> Phase]
    /\ \A c \in Call : phase'[c] = phase[c] \/ phase'[c] \in Onward(phase[c])
    /\ working' = [c \in Call |-> IF phase'[c] = "lost" THEN {} ELSE working[c]]
    /\ UNCHANGED durable

(* Call c goes on to phase p with w in its transaction; d takes effect.    *)
Takes(c, p, w, d) ==
    /\ phase' = [phase EXCEPT ![c] = p]
    /\ working' = [working EXCEPT ![c] = w]
    /\ durable' = durable \cup d

WritesAlone(c) ==
    \E w \in writesOf[c] :
       \/ phase[c] = "write" /\ Takes(c, "succeeded", {}, {w})
       \/ phase[c] = "ended" /\ Takes(c, "ended", {}, {w})

(* All of a compound write takes effect, and the call may yet be told of a *)
(* failure; or it fails with any part of it in effect.                     *)
Compounds(c) ==
    /\ phase[c] = "compound"
    /\ \/ Takes(c, "applied", {}, writesOf[c])
       \/ \E d \in SUBSET writesOf[c] : Takes(c, "failed", {}, d)

Begins(c) == phase[c] = "transaction" /\ Takes(c, "inside", {}, {})

Writes(c) == phase[c] = "inside" /\ \E w \in writesOf[c] : Takes(c, "inside", working[c] \cup {w}, {})

Breaks(c) == phase[c] \in {"inside", "broken"} /\ Takes(c, "broken", working[c], {})

Commits(c) == phase[c] = "inside" /\ \E p \in {"succeeded", "ended"} : Takes(c, p, {}, working[c])

(* PostgreSQL answers the COMMIT of a broken transaction, and rolls back.  *)
Drops(c) == phase[c] = "broken" /\ Takes(c, "dropped", {}, {})

Undoes(c) == phase[c] \in {"inside", "broken"} /\ \E p \in {"failed", "ended"} : Takes(c, p, {}, {})

(* The function of a transaction is run again, as if never before.         *)
Retries(c) == phase[c] = "inside" /\ Takes(c, "inside", {}, {})

(* The table is replaced first, and then all rows come or none.            *)
Imports(c) ==
    /\ phase[c] = "import"
    /\ \/ Takes(c, "succeeded", {}, writesOf[c])
       \/ \E w \in writesOf[c] : Takes(c, "failed", {}, {w})

ICNext ==
    \/ Pass
    \/ \E c \in Call :
          \/ WritesAlone(c) \/ Compounds(c) \/ Imports(c)
          \/ Begins(c) \/ Writes(c) \/ Breaks(c) \/ Commits(c) \/ Drops(c) \/ Undoes(c) \/ Retries(c)

ICSpec == ICInit /\ [][ICNext]_icVars

============================================================================
