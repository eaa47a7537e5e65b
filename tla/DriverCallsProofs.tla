-------------------------- MODULE DriverCallsProofs --------------------------
(***************************************************************************)
(* For any calls, handles, dialects and pool sizes, whichever calls fail   *)
(* and whichever handles are destroyed when: what a call answered is what  *)
(* happened to its writes, servers keep transactions apart, the backend    *)
(* store counts its users, and nothing is left open.                       *)
(*                                                                         *)
(* None of these is inductive. An answer is true because of what the       *)
(* connection holds while the call runs (OutcomesAreTold), which needs to  *)
(* know whose each open transaction is (TransactionsAreOwned) and, on a    *)
(* server, that nobody else has the connection (ConnectionsAreHeldOnce).   *)
(* That nothing leaks needs an owner of every open connection at every     *)
(* moment, also while a backend is awaited and while a pool closes         *)
(* (StoreIsHeld, PoolsAreHeld).                                            *)
(*                                                                         *)
(* Last, that the drivers implement IsolatedCalls as long as no call has   *)
(* shared a connection: step by step, what each handler does is a step of  *)
(* one call by itself, or one in which calls only go on (ICNext).          *)
(***************************************************************************)
EXTENDS DriverCalls, FiniteSetTheorems, TLAPS

-----------------------------------------------------------------------------
(* The inductive invariant.                                                *)

Fresh == {"none", "waiting", "ready", "holding"}
Within == {"running", "probing"}
Connected == {"holding"} \cup Within
Applied == {"applied", "rereading"}

(* What a call has in each state.                                          *)
CallIsGiven(c) ==
    /\ call[c].st = "none" => call[c].kind = "read" /\ call[c].conn = NoConn
    /\ call[c].st = "none" \/ call[c].kind = "test" => call[c].on = NoHandle
    /\ ~Over(c) /\ call[c].kind # "test" => call[c].on \in Handle
    /\ call[c].kind = "test" => call[c].st \in {"waiting", "ready", "answered", "failed"}
    /\ call[c].st = "waiting" /\ (~Lite \/ call[c].kind = "test") => call[c].conn = NoConn
    /\ call[c].st \in Connected => call[c].conn # NoConn
    /\ call[c].st = "ready" /\ (Lite \/ call[c].kind = "test") => call[c].conn # NoConn
    /\ call[c].st \in Fresh => call[c].finished = "no"
    /\ call[c].st \in Within => call[c].kind = "transaction"
    /\ call[c].st = "probing" => ~Lite
    /\ call[c].st \in Applied => call[c].kind = "compound" /\ call[c].finished = "no"
    /\ call[c].kind = "compound" => dialect \in {"mysql", "mongodb"}
    /\ call[c].kind = "control" => dialect # "mongodb"
    /\ call[c].conn <= db.made

CallsAreGiven == \A c \in Call : CallIsGiven(c)

(* Connections are numbered as they are opened; the record of the backend  *)
(* store, and who waits for it.                                            *)
StoreIsKept ==
    /\ \A b \in db.open : b <= db.made
    /\ entry <= db.made
    /\ entry = NoConn => entryRefs = 0
    /\ entry # NoConn => entryRefs > 0
    /\ \A h \in Handle : promise[h] <= db.made
    /\ \A h \in opening \cap Handle : promise[h] = Pending
    /\ ~Lite => opening = {} /\ \A h \in Handle : promise[h] = NoConn /\ field[h] = NoConn
    /\ ~File => entry = NoConn
    /\ \A h \in Handle : dying[h] # 0 => h \in destroyed

Types == TypeOK /\ CallsAreGiven /\ StoreIsKept

(* An open transaction is a control's, or that of a function that runs on  *)
(* this connection and has not ended it.                                   *)
TransactionsAreOwned ==
    /\ \A b \in Conn : /\ b \notin db.open => db.txOf[b] = NoCall
                       /\ db.txOf[b] = NoCall => db.dirty[b] = {}
    /\ \A b \in Conn, c \in Call :
          db.txOf[b] = c =>
             \/ call[c].kind = "control"
             \/ call[c].st \in Within /\ call[c].conn = b /\ call[c].finished = "no"
    /\ db.aborted # {} => dialect = "postgresql"

(* On a server no two calls hold one connection.                           *)
ConnectionsAreHeldOnce ==
    ~Lite => \A c, d \in Call : call[c].st \in Connected /\ call[d].st \in Connected /\ c # d
                                => call[c].conn # call[d].conn

(* Where the writes of a call are.                                         *)
Nowhere(c, w) ==
    w[1] = c => w \notin db.durable /\ \A b \in Conn : w \notin db.dirty[b]

WritesAreKept(c) ==
    LET b == call[c].conn
    IN  /\ call[c].st \in Fresh =>
             \A w \in Write : w[1] = c => w \notin db.written /\ Nowhere(c, w)
        /\ call[c].st \in Within /\ call[c].finished = "no" =>
             /\ \A w \in Write : w[1] = c => w \notin db.durable
             /\ \A o \in Conn, w \in Write : w[1] = c /\ w \in db.dirty[o] => o = b /\ b \in db.open
             /\ b \in db.open => db.txOf[b] = c
             /\ b \in db.open => \A w \in db.written : w[1] = c => w \in db.dirty[b]
        /\ call[c].finished = "commit" \/ (call[c].st = "answered" /\ call[c].finished = "no") =>
             \/ dialect = "postgresql" /\ call[c].caught
             \/ \A w \in db.written : w[1] = c => w \in db.durable
        /\ call[c].st \in Applied \/ (call[c].st = "failed" /\ call[c].kind = "compound") =>
             \A w \in db.written : w[1] = c => w \in db.durable
        /\ call[c].st = "failed" /\ call[c].finished = "no" /\ call[c].kind \notin {"import", "compound"} =>
             \A w \in Write : Nowhere(c, w)

OutcomesAreTold ==
    /\ \A c \in Call \ mixed : WritesAreKept(c)
    /\ \A c \in Call : call[c].st \in Fresh \/ (call[c].st = "failed" /\ call[c].kind = "import") =>
          Nowhere(c, <<c, 2>>)
    /\ \A b \in db.aborted : \A c \in Call :
          db.txOf[b] = c /\ call[c].kind = "transaction" => call[c].caught

(* The backends of a handle: its calls and its field have what its promise *)
(* was fulfilled with, until destroy() has given it back.                  *)
HandlesAgree ==
    \A h \in Handle \ destroyed :
        /\ field[h] # NoConn => promise[h] = field[h]
        /\ \A c \in Call : call[c].st = "waiting" /\ call[c].on = h /\ call[c].conn # NoConn
                           => promise[h] = call[c].conn

StoreCounts ==
    File /\ ~raced =>
        /\ \A c \in Call : call[c].kind = "test" /\ call[c].st = "ready" => call[c].conn = entry
        /\ \A h \in Handle : promise[h] > 0 => promise[h] = entry
        /\ db.open = (IF entry = NoConn THEN {} ELSE {entry})
        /\ entryRefs = Cardinality(BackendUsers)

(* What is open is somebody's, who will give it back.                      *)
Waits(c, h) == call[c].st = "waiting" /\ call[c].kind # "test" /\ call[c].on = h
Tests(b) == \E c \in Call : call[c].kind = "test" /\ call[c].st = "ready" /\ call[c].conn = b

StoreIsHeld ==
    /\ \A h \in Handle : promise[h] = Pending => \E c \in Call : Waits(c, h) /\ call[c].conn = NoConn
    /\ \A h \in Handle \ late : promise[h] > 0 /\ (h \in destroyed \/ field[h] = NoConn)
          => \E c \in Call : Waits(c, h) /\ call[c].conn # NoConn
    /\ dialect = "memory" => \A b \in db.open : Tests(b) \/ \E h \in Handle : promise[h] = b
    /\ ~File => \A h \in Handle \ Pooled : promise[h] = NoConn

PoolsAreHeld ==
    ~Lite =>
        /\ \A b \in db.open : db.home[b] = <<NoHandle, 0>> => Tests(b)
        /\ \A h \in Handle \ late :
             /\ \/ inst[h] = 0 /\ gens[h] = 0
                \/ inst[h] = 1 /\ gens[h] = 1
                \/ inst[h] = 0 /\ gens[h] = 1 /\ dying[h] = 1
             /\ \A c \in Call : ~Over(c) /\ call[c].kind # "test" /\ call[c].on = h
                            => call[c].gen = 1 /\ gens[h] = 1
             /\ \A b \in db.open : db.home[b][1] = h => inst[h] = 1 /\ db.home[b] = <<h, 1>>

Said == TransactionsAreOwned /\ ConnectionsAreHeldOnce /\ OutcomesAreTold
Accounts == HandlesAgree /\ StoreCounts /\ StoreIsHeld /\ PoolsAreHeld

IInv == Types /\ Said /\ ServerTransactionsAreAlone /\ Accounts

-----------------------------------------------------------------------------
(* What the statements of DbConnections do to each part of a database.     *)

LEMMA OpenedFields ==
    ASSUME NEW d \in Database, NEW i \in Instance, d.made < MaxConns
    PROVE  LET e == Opened(d, i)
           IN  /\ e \in Database /\ e.made = d.made + 1 /\ e.made \in Conn
               /\ e.open = d.open \cup {d.made + 1}
               /\ e.home = [d.home EXCEPT ![d.made + 1] = i]
               /\ e.txOf = d.txOf /\ e.aborted = d.aborted /\ e.dirty = d.dirty
               /\ e.durable = d.durable /\ e.written = d.written
<1> DEFINE n == d.made + 1
<1>0. PICK e : e = Opened(d, i)
  OBVIOUS
<1>1. n \in Conn /\ n \in 0 .. MaxConns
  BY ConnectionAssumption DEF ConnectionAssumption, Database, Conn
<1>2. e = [d EXCEPT !.made = @ + 1, !.open = @ \cup {n}, !.home[n] = i]
  BY <1>0 DEF Opened
<1>3. /\ e.made = n /\ e.open = d.open \cup {n} /\ e.home = [d.home EXCEPT ![n] = i]
      /\ e.txOf = d.txOf /\ e.aborted = d.aborted /\ e.dirty = d.dirty
      /\ e.durable = d.durable /\ e.written = d.written
  BY <1>2 DEF Database
<1>4. e \in Database
  <2>1. d.open \cup {n} \in SUBSET Conn
    BY <1>1 DEF Database
  <2>2. [d.home EXCEPT ![n] = i] \in [Conn -> Instance]
    BY <1>1 DEF Database
  <2>3. e = [d EXCEPT !.made = n, !.open = d.open \cup {n}, !.home = [d.home EXCEPT ![n] = i]]
    BY <1>2 DEF Database
  <2> HIDE DEF n
  <2>4. QED
    BY <1>1, <2>1, <2>2, <2>3 DEF Database
<1>5. QED
  BY <1>0, <1>1, <1>3, <1>4

LEMMA CommitFields ==
    ASSUME NEW d \in Database, NEW b \in Conn
    PROVE  LET e == Commit(d, b)
           IN  /\ e \in Database /\ e.made = d.made /\ e.open = d.open /\ e.home = d.home
               /\ e.txOf = [d.txOf EXCEPT ![b] = NoCall]
               /\ e.aborted = d.aborted \ {b}
               /\ e.dirty = [d.dirty EXCEPT ![b] = {}]
               /\ e.durable = IF b \in d.aborted THEN d.durable ELSE d.durable \cup d.dirty[b]
               /\ e.written = d.written
BY DEF Commit, Database

LEMMA RollbackFields ==
    ASSUME NEW d \in Database, NEW b \in Conn
    PROVE  LET e == Rollback(d, b)
           IN  /\ e \in Database /\ e.made = d.made /\ e.open = d.open /\ e.home = d.home
               /\ e.txOf = [d.txOf EXCEPT ![b] = NoCall]
               /\ e.aborted = d.aborted \ {b}
               /\ e.dirty = [d.dirty EXCEPT ![b] = {}]
               /\ e.durable = d.durable /\ e.written = d.written
BY DEF Rollback, Database

Begins(d, b, c, k, e) ==
    /\ e \in Database /\ e.made = d.made /\ e.open = d.open /\ e.home = d.home
    /\ e.txOf = [d.txOf EXCEPT ![b] = c] /\ e.written = d.written
    /\ k # "mysql" => e.aborted = d.aborted /\ e.dirty = d.dirty /\ e.durable = d.durable
    /\ k = "mysql" =>
         /\ e.aborted = d.aborted \ {b} /\ e.dirty = [d.dirty EXCEPT ![b] = {}]
         /\ e.durable = IF b \in d.aborted THEN d.durable ELSE d.durable \cup d.dirty[b]

LEMMA BeginFields ==
    ASSUME NEW d \in Database, NEW b \in Conn, NEW c \in Call, NEW k
    PROVE  Begins(d, b, c, k, Begin(d, b, c, k))
<1>0. PICK e : e = Begin(d, b, c, k)
  OBVIOUS
<1>1. ASSUME NEW f \in Database, e = [f EXCEPT !.txOf[b] = c]
      PROVE  /\ e \in Database /\ e.made = f.made /\ e.open = f.open /\ e.home = f.home
             /\ e.txOf = [f.txOf EXCEPT ![b] = c]
             /\ e.aborted = f.aborted /\ e.dirty = f.dirty
             /\ e.durable = f.durable /\ e.written = f.written
  BY <1>1 DEF Database
<1>2. CASE k = "mysql"
  <2>1. e = [Commit(d, b) EXCEPT !.txOf[b] = c]
    BY <1>0, <1>2 DEF Begin
  <2>2. [[d.txOf EXCEPT ![b] = NoCall] EXCEPT ![b] = c] = [d.txOf EXCEPT ![b] = c]
    BY DEF Database
  <2>3. PICK f : f = Commit(d, b)
    OBVIOUS
  <2>4. /\ f \in Database /\ f.made = d.made /\ f.open = d.open /\ f.home = d.home
        /\ f.txOf = [d.txOf EXCEPT ![b] = NoCall] /\ f.written = d.written
        /\ f.aborted = d.aborted \ {b} /\ f.dirty = [d.dirty EXCEPT ![b] = {}]
        /\ f.durable = IF b \in d.aborted THEN d.durable ELSE d.durable \cup d.dirty[b]
    BY <2>3, CommitFields
  <2>5. e = [f EXCEPT !.txOf[b] = c]
    BY <2>1, <2>3
  <2>6. QED
    BY <1>0, <1>1, <1>2, <2>2, <2>4, <2>5 DEF Begins
<1>3. CASE k # "mysql"
  <2>1. e = [d EXCEPT !.txOf[b] = c]
    BY <1>0, <1>3 DEF Begin
  <2>2. QED
    BY <1>0, <1>1, <1>3, <2>1 DEF Begins
<1>4. QED
  BY <1>2, <1>3

Execs(d, b, w, e) ==
    /\ e \in Database /\ e.made = d.made /\ e.open = d.open /\ e.home = d.home
    /\ e.txOf = d.txOf /\ e.aborted = d.aborted
    /\ e.dirty = IF d.txOf[b] = NoCall THEN d.dirty ELSE [d.dirty EXCEPT ![b] = @ \cup {w}]
    /\ e.durable = IF d.txOf[b] = NoCall THEN d.durable \cup {w} ELSE d.durable
    /\ e.written = d.written \cup {w}

LEMMA ExecFields ==
    ASSUME NEW d \in Database, NEW b \in Conn, NEW w \in Write
    PROVE  Execs(d, b, w, Exec(d, b, w))
<1>1. CASE d.txOf[b] = NoCall
  BY <1>1 DEF Exec, Database, Execs
<1>2. CASE d.txOf[b] # NoCall
  BY <1>2 DEF Exec, Database, Execs
<1>3. QED
  BY <1>1, <1>2

LEMMA ForgottenFields ==
    ASSUME NEW d \in Database, NEW c
    PROVE  LET e == Forgotten(d, c)
           IN  /\ e \in Database /\ e.made = d.made /\ e.open = d.open /\ e.home = d.home
               /\ e.txOf = d.txOf /\ e.aborted = d.aborted /\ e.dirty = d.dirty
               /\ e.durable = d.durable /\ e.written = {w \in d.written : w[1] # c}
BY DEF Forgotten, Database

LEMMA FailFields ==
    ASSUME NEW d \in Database, NEW b \in Conn, NEW k
    PROVE  LET e == Fail(d, b, k)
           IN  /\ e \in Database /\ e.made = d.made /\ e.open = d.open /\ e.home = d.home
               /\ e.txOf = d.txOf /\ e.dirty = d.dirty
               /\ e.durable = d.durable /\ e.written = d.written
               /\ e.aborted = IF k = "postgresql" /\ d.txOf[b] # NoCall THEN d.aborted \cup {b}
                                                                         ELSE d.aborted
BY DEF Fail, Database

LEMMA CloseFields ==
    ASSUME NEW d \in Database, NEW b \in Conn
    PROVE  LET e == Close(d, b)
           IN  /\ e \in Database /\ e.made = d.made /\ e.open = d.open \ {b} /\ e.home = d.home
               /\ e.txOf = [d.txOf EXCEPT ![b] = NoCall]
               /\ e.aborted = d.aborted \ {b}
               /\ e.dirty = [d.dirty EXCEPT ![b] = {}]
               /\ e.durable = d.durable /\ e.written = d.written
<1>0. PICK e : e = Close(d, b)
  OBVIOUS
<1>1. PICK f : f = Rollback(d, b)
  OBVIOUS
<1>2. /\ f \in Database /\ f.made = d.made /\ f.open = d.open /\ f.home = d.home
      /\ f.txOf = [d.txOf EXCEPT ![b] = NoCall]
      /\ f.aborted = d.aborted \ {b} /\ f.dirty = [d.dirty EXCEPT ![b] = {}]
      /\ f.durable = d.durable /\ f.written = d.written
  BY <1>1, RollbackFields
<1>3. e = [f EXCEPT !.open = @ \ {b}]
  BY <1>0, <1>1 DEF Close
<1>4. /\ e \in Database /\ e.made = f.made /\ e.open = f.open \ {b} /\ e.home = f.home
      /\ e.txOf = f.txOf /\ e.aborted = f.aborted /\ e.dirty = f.dirty
      /\ e.durable = f.durable /\ e.written = f.written
  BY <1>2, <1>3 DEF Database
<1>5. QED
  BY <1>0, <1>2, <1>4

LEMMA CloseAllFields ==
    ASSUME NEW d \in Database, NEW S \in SUBSET Conn
    PROVE  LET e == CloseAll(d, S)
           IN  /\ e \in Database /\ e.made = d.made /\ e.open = d.open \ S /\ e.home = d.home
               /\ e.txOf = [b \in Conn |-> IF b \in S THEN NoCall ELSE d.txOf[b]]
               /\ e.aborted = d.aborted \ S
               /\ e.dirty = [b \in Conn |-> IF b \in S THEN {} ELSE d.dirty[b]]
               /\ e.durable = d.durable /\ e.written = d.written
BY DEF CloseAll, Database

(* No statement opens or closes a connection. *)
InPlaceOf(d, e) == e \in Database /\ e.made = d.made /\ e.open = d.open /\ e.home = d.home

LEMMA StatementsOpenNothing ==
    ASSUME NEW d \in Database, NEW b \in Conn
    PROVE  /\ InPlaceOf(d, d) /\ InPlaceOf(d, Commit(d, b)) /\ InPlaceOf(d, Rollback(d, b))
           /\ \A c \in Call : \A k : InPlaceOf(d, Begin(d, b, c, k))
           /\ \A w \in Write : InPlaceOf(d, Exec(d, b, w))
           /\ \A c : InPlaceOf(d, Forgotten(d, c))
           /\ \A k : InPlaceOf(d, Fail(d, b, k))
<1>1. InPlaceOf(d, d) /\ InPlaceOf(d, Commit(d, b)) /\ InPlaceOf(d, Rollback(d, b))
  BY CommitFields, RollbackFields DEF InPlaceOf
<1>2. ASSUME NEW c \in Call, NEW k PROVE InPlaceOf(d, Begin(d, b, c, k))
  <2>1. ASSUME NEW f \in Database, InPlaceOf(d, f)
        PROVE  InPlaceOf(d, [f EXCEPT !.txOf[b] = c])
    BY <2>1 DEF InPlaceOf, Database
  <2>2. Commit(d, b) \in Database /\ InPlaceOf(d, Commit(d, b)) /\ InPlaceOf(d, d)
    BY <1>1 DEF InPlaceOf
  <2>3. CASE k = "mysql"
    BY <2>1, <2>2, <2>3 DEF Begin
  <2>4. CASE k # "mysql"
    BY <2>1, <2>2, <2>4 DEF Begin
  <2>5. QED
    BY <2>3, <2>4
<1>3. ASSUME NEW w \in Write PROVE InPlaceOf(d, Exec(d, b, w))
  <2>1. ASSUME NEW f \in Database, InPlaceOf(d, f)
        PROVE  InPlaceOf(d, [f EXCEPT !.written = @ \cup {w}])
    BY <2>1 DEF InPlaceOf, Database
  <2>2. InPlaceOf(d, [d EXCEPT !.durable = @ \cup {w}]) /\ InPlaceOf(d, [d EXCEPT !.dirty[b] = @ \cup {w}])
    BY DEF InPlaceOf, Database
  <2>3. QED
    BY <2>1, <2>2 DEF Exec, InPlaceOf
<1>4. ASSUME NEW c PROVE InPlaceOf(d, Forgotten(d, c))
  BY ForgottenFields DEF InPlaceOf
<1>5. ASSUME NEW k PROVE InPlaceOf(d, Fail(d, b, k))
  BY FailFields DEF InPlaceOf
<1>6. QED
  BY <1>1, <1>2, <1>3, <1>4, <1>5

-----------------------------------------------------------------------------
(* What the steps do. Most take a call further in its own state, or open   *)
(* or close connections: they are calm. The others are statements.         *)

OthersStay(c) == call' \in [Call -> CallRecord] /\ \A d \in Call \ {c} : call'[d] = call[d]

Opens ==
    /\ db'.made = db.made + 1 /\ db'.made \in Conn
    /\ db'.open = db.open \cup {db'.made}
    /\ db'.txOf = db.txOf /\ db'.aborted = db.aborted /\ db'.dirty = db.dirty
    /\ db'.durable = db.durable /\ db'.written = db.written

Closes ==
    /\ db'.made = db.made /\ db'.durable = db.durable /\ db'.written = db.written
    /\ \E S \in SUBSET Conn :
         /\ db'.open = db.open \ S /\ db'.aborted = db.aborted \ S
         /\ \A b \in Conn : /\ db'.txOf[b] = IF b \in S THEN NoCall ELSE db.txOf[b]
                            /\ db'.dirty[b] = IF b \in S THEN {} ELSE db.dirty[b]

Progresses(c) ==
    \/ call'[c] = call[c]
    \/ /\ call[c].st \in Within /\ call'[c].st \in Within
       /\ call'[c].kind = call[c].kind /\ call'[c].conn = call[c].conn
       /\ call'[c].finished = call[c].finished /\ call'[c].caught = call[c].caught
    \/ /\ call[c].st \in Applied /\ call'[c].st \in Applied \cup {"answered", "failed"}
       /\ call'[c].kind = call[c].kind
       /\ call'[c].finished = call[c].finished /\ call'[c].caught = call[c].caught
    \/ /\ call[c].st \in Fresh /\ call'[c].st \in {"waiting", "ready", "holding", "answered", "failed"}
       /\ call'[c].finished = call[c].finished
       /\ call'[c].kind = call[c].kind \/ call[c].st = "none"

Calm ==
    /\ dialect' = dialect /\ mixed' = mixed
    /\ Opens \/ Closes
    /\ \A c \in Call : Progresses(c)

KeepsConns ==
    \A c \in Call : call'[c].st \in Connected => call[c].st \in Connected /\ call'[c].conn = call[c].conn

(* A step of call c that touches neither a pool nor the store. *)
InPlace(c) ==
    /\ UNCHANGED <<dialect, storeVars, destroyed, inst, gens, dying, late>>
    /\ InPlaceOf(db, db')
    /\ OthersStay(c)
    /\ call'[c].kind = call[c].kind /\ call[c].kind # "test" /\ ~Over(c)
    /\ call[c].st = "waiting" => ~Lite
    /\ call'[c].st \notin {"none", "waiting", "probing"}
    /\ \/ /\ call'[c].on = call[c].on /\ call'[c].gen = call[c].gen
          /\ call'[c].conn = call[c].conn
       \/ call'[c].st \in {"answered", "failed"} /\ call'[c].conn = NoConn

LEMMA CallFields ==
    ASSUME NEW f \in [Call -> CallRecord], NEW c \in Call, NEW r \in CallRecord, NEW g,
           g = [f EXCEPT ![c] = r]
    PROVE  g \in [Call -> CallRecord] /\ g[c] = r /\ \A d \in Call \ {c} : g[d] = f[d]
OBVIOUS

LEMMA GoesFields ==
    ASSUME TypeOK, NEW c \in Call, NEW s \in CallState, Goes(c, s)
    PROVE  /\ OthersStay(c) /\ call'[c].st = s
           /\ call'[c].kind = call[c].kind /\ call'[c].on = call[c].on /\ call'[c].gen = call[c].gen
           /\ call'[c].conn = call[c].conn /\ call'[c].n = call[c].n
           /\ call'[c].finished = call[c].finished /\ call'[c].caught = call[c].caught
           /\ call'[c].again = call[c].again
<1> DEFINE r == [call[c] EXCEPT !.st = s]
<1>1. call' = [call EXCEPT ![c] = r]
  BY DEF Goes
<1>2. call[c] \in CallRecord
  BY DEF TypeOK
<1>3. /\ r \in CallRecord /\ r.st = s /\ r.kind = call[c].kind /\ r.on = call[c].on
      /\ r.gen = call[c].gen /\ r.conn = call[c].conn /\ r.n = call[c].n
      /\ r.finished = call[c].finished /\ r.caught = call[c].caught /\ r.again = call[c].again
  BY <1>2 DEF CallRecord
<1> HIDE DEF r
<1>4. QED
  BY <1>1, <1>3, CallFields DEF OthersStay, TypeOK

LEMMA EndsFields ==
    ASSUME TypeOK, NEW c \in Call, NEW s \in CallState, Ends(c, s)
    PROVE  /\ OthersStay(c) /\ call'[c].st = s
           /\ call'[c].kind = call[c].kind /\ call'[c].on = NoHandle /\ call'[c].conn = NoConn
           /\ call'[c].finished = call[c].finished /\ call'[c].caught = call[c].caught
<1> DEFINE r == Settled(call[c], s)
<1>1. call' = [call EXCEPT ![c] = r]
  BY DEF Ends
<1>2. call[c] \in CallRecord
  BY DEF TypeOK
<1>3. /\ r \in CallRecord /\ r.st = s /\ r.kind = call[c].kind /\ r.on = NoHandle
      /\ r.conn = NoConn /\ r.finished = call[c].finished /\ r.caught = call[c].caught
  <2>1. 0 \in 0 .. MaxInstances /\ 0 \in 0 .. MaxStatements
    BY PoolAssumption, StatementAssumption DEF PoolAssumption, StatementAssumption
  <2>2. QED
    BY <1>2, <2>1 DEF CallRecord, Settled
<1> HIDE DEF r
<1>4. QED
  BY <1>1, <1>3, CallFields DEF OthersStay, TypeOK

(* The invariants of types are kept by a step in place. *)
LEMMA InPlaceTypes ==
    ASSUME Types, NEW c \in Call, InPlace(c), caps' \subseteq Handle, mixed' \subseteq Call,
           call'[c].st \in Within => call[c].kind = "transaction",
           call'[c].st \in Applied => call[c].kind = "compound" /\ call'[c].finished = "no",
           call'[c].st = "holding" => call[c].st = "holding",
           call'[c].st = "ready" => ~Lite,
           call'[c].st \in Connected => call[c].conn # NoConn,
           call'[c].st \in Fresh => call'[c].finished = "no"
    PROVE  Types'
<1>1. TypeOK'
  BY DEF Types, TypeOK, InPlace, OthersStay, storeVars, InPlaceOf
<1>2. CallIsGiven(c)'
  <2>1. CallIsGiven(c) /\ db.made \in Nat
    BY DEF Types, CallsAreGiven, TypeOK, Database
  <2>2. CASE call'[c].st \in {"answered", "failed"} /\ call'[c].conn = NoConn
    BY <2>1, <2>2 DEF InPlace, InPlaceOf, CallIsGiven, Over, Fresh, Connected, Within, Applied, NoConn, Lite
  <2>3. CASE call'[c].on = call[c].on /\ call'[c].conn = call[c].conn
    BY <2>1, <2>3 DEF InPlace, InPlaceOf, CallIsGiven, Over, Connected, Within, Applied, Lite
  <2>4. QED
    BY <2>2, <2>3 DEF InPlace
<1>3. ASSUME NEW d \in Call \ {c} PROVE CallIsGiven(d)'
  BY DEF Types, InPlace, InPlaceOf, OthersStay, CallsAreGiven, CallIsGiven, Lite, Over, Database
<1>4. StoreIsKept'
  BY DEF Types, InPlace, InPlaceOf, StoreIsKept, storeVars, Lite, File
<1>5. QED
  BY <1>1, <1>2, <1>3, <1>4 DEF Types, CallsAreGiven

LEMMA StillCloses == TypeOK /\ db' = db => Closes
<1> SUFFICES ASSUME TypeOK, db' = db PROVE Closes
  OBVIOUS
<1>1. PICK none \in SUBSET Conn : none = {}
  OBVIOUS
<1>2. /\ db'.open = db.open \ none /\ db'.aborted = db.aborted \ none
      /\ \A b \in Conn : /\ db'.txOf[b] = IF b \in none THEN NoCall ELSE db.txOf[b]
                         /\ db'.dirty[b] = IF b \in none THEN {} ELSE db.dirty[b]
  BY <1>1
<1>3. QED
  BY <1>2 DEF Closes

(* Steps in which a call only waits, gives up or reads. *)
Quiet(c) ==
    \/ Connects(c) \/ AcquireFails(c) \/ Probes(c) \/ ReadEnds(c) \/ ProbeFails(c)
    \/ RereadFails(c) \/ CompoundEnds(c)

LEMMA QuietSteps ==
    ASSUME Types, NEW c \in Call, Quiet(c)
    PROVE  InPlace(c) /\ Types' /\ Calm /\ KeepsConns
<1>1. /\ UNCHANGED <<dialect, db, storeVars, destroyed, inst, gens, dying, mixed, late>>
      /\ caps' \subseteq Handle
  <2>1. UNCHANGED <<dialect, db, storeVars, destroyed, inst, gens, dying, mixed, late>>
    BY DEF Quiet, Connects, AcquireFails, Probes, ReadEnds, ProbeFails, RereadFails, CompoundEnds, poolVars
  <2>2. caps' = caps \/ (caps' = caps \cup {call[c].on} /\ Probes(c))
    BY DEF Quiet, Connects, AcquireFails, Probes, ReadEnds, ProbeFails, RereadFails, CompoundEnds, poolVars
  <2>3. Probes(c) => call[c].on \in Handle
    BY DEF Probes, Types, CallsAreGiven, CallIsGiven, Over
  <2>4. QED
    BY <2>1, <2>2, <2>3 DEF Types, TypeOK
<1>2. /\ call[c].kind # "test" /\ ~Over(c)
      /\ call[c].st = "waiting" => ~Lite
      /\ \/ call[c].st \in Fresh /\ (Ends(c, "failed") \/ Ends(c, "answered"))
         \/ call[c].st = "waiting" /\ ~Lite /\ Goes(c, "ready")
         \/ call[c].st = "holding" /\ ~Lite /\ Goes(c, "ready")
         \/ call[c].st = "probing" /\ Goes(c, "running")
         \/ call[c].st \in Applied /\ (Ends(c, "failed") \/ Ends(c, "answered"))
  <2>1. CASE Connects(c)
    BY <2>1 DEF Connects, Over, Fresh
  <2>2. CASE AcquireFails(c)
    BY <2>2 DEF AcquireFails, Over, Fresh
  <2>3. CASE Probes(c)
    BY <2>3 DEF Probes, Over, Lite
  <2>4. CASE ReadEnds(c)
    BY <2>4 DEF ReadEnds, HasConnection, Over, Fresh
  <2>5. CASE ProbeFails(c)
    BY <2>5 DEF ProbeFails, Over, Types, CallsAreGiven, CallIsGiven, Within
  <2>6. CASE RereadFails(c) \/ CompoundEnds(c)
    BY <2>6 DEF RereadFails, CompoundEnds, Over, Types, CallsAreGiven, CallIsGiven, Applied
  <2>7. QED
    BY <2>1, <2>2, <2>3, <2>4, <2>5, <2>6 DEF Quiet
<1>3. TypeOK /\ CallIsGiven(c)
  BY DEF Types, CallsAreGiven
<1>4. /\ OthersStay(c) /\ call'[c].kind = call[c].kind
      /\ call'[c].finished = call[c].finished /\ call'[c].caught = call[c].caught
      /\ \/ /\ call[c].st \in Fresh \cup Applied /\ call'[c].st \in {"failed", "answered"}
            /\ call'[c].conn = NoConn
         \/ /\ call[c].st = "waiting" /\ ~Lite /\ call'[c].st = "ready"
            /\ call'[c].on = call[c].on /\ call'[c].gen = call[c].gen /\ call'[c].conn = call[c].conn
         \/ /\ call[c].st = "holding" /\ ~Lite /\ call'[c].st = "ready"
            /\ call'[c].on = call[c].on /\ call'[c].gen = call[c].gen /\ call'[c].conn = call[c].conn
         \/ /\ call[c].st = "probing" /\ call'[c].st = "running"
            /\ call'[c].on = call[c].on /\ call'[c].gen = call[c].gen /\ call'[c].conn = call[c].conn
  <2>1. CASE call[c].st \in Fresh \cup Applied /\ (Ends(c, "failed") \/ Ends(c, "answered"))
    <3>1. PICK s \in {"failed", "answered"} : Ends(c, s)
      BY <2>1
    <3>2. s \in CallState
      BY DEF CallState
    <3>3. /\ OthersStay(c) /\ call'[c].st = s /\ call'[c].kind = call[c].kind /\ call'[c].conn = NoConn
          /\ call'[c].finished = call[c].finished /\ call'[c].caught = call[c].caught
      BY <1>3, <3>1, <3>2, EndsFields
    <3>4. QED
      BY <2>1, <3>3
  <2>2. ASSUME NEW s \in {"ready", "running"}, Goes(c, s)
        PROVE  /\ OthersStay(c) /\ call'[c].kind = call[c].kind /\ call'[c].st = s
               /\ call'[c].finished = call[c].finished /\ call'[c].caught = call[c].caught
               /\ call'[c].on = call[c].on /\ call'[c].gen = call[c].gen /\ call'[c].conn = call[c].conn
    <3>1. s \in CallState
      BY DEF CallState
    <3>2. QED
      BY <1>3, <2>2, <3>1, GoesFields
  <2>3. CASE call[c].st \in {"waiting", "holding"} /\ ~Lite /\ Goes(c, "ready")
    BY <2>2, <2>3
  <2>4. CASE call[c].st = "probing" /\ Goes(c, "running")
    BY <2>2, <2>4
  <2>5. QED
    BY <1>2, <2>1, <2>3, <2>4
<1>5. InPlace(c)
  BY <1>1, <1>2, <1>3, <1>4 DEF InPlace, InPlaceOf, TypeOK
<1>6. Types'
  <2>1. mixed' \subseteq Call
    BY <1>1, <1>3 DEF TypeOK
  <2>2. call'[c].st \in Within => call[c].kind = "transaction" /\ call[c].conn # NoConn
    BY <1>3, <1>4 DEF Within, CallIsGiven, Connected
  <2>3. call'[c].st \in Fresh => call'[c].finished = "no"
    BY <1>3, <1>4 DEF Fresh, CallIsGiven
  <2>4. call'[c].st # "holding" /\ (call'[c].st = "ready" => ~Lite) /\ call'[c].st \notin Applied
    BY <1>4 DEF Applied
  <2>5. QED
    BY <1>1, <1>5, <2>1, <2>2, <2>3, <2>4, InPlaceTypes DEF Connected
<1>7. Calm
  <2>1. Progresses(c)
    BY <1>4 DEF Progresses, Fresh, Within, Applied
  <2>2. Closes
    BY <1>1, <1>3, StillCloses
  <2>3. QED
    BY <1>1, <1>4, <2>1, <2>2 DEF Calm, OthersStay, Progresses
<1>8. KeepsConns
  BY <1>4 DEF KeepsConns, OthersStay, Connected, Within
<1>9. QED
  BY <1>5, <1>6, <1>7, <1>8

-----------------------------------------------------------------------------
(* The statements.                                                         *)

(* A statement on connection b of call c changes the database there.       *)
Rest == UNCHANGED <<dialect, storeVars, destroyed, poolVars, late>>
StatementOn(c, b) ==
    /\ b = call[c].conn /\ b \in Conn
    /\ call[c].st = "ready" \/ call[c].st \in Connected
    /\ call[c].kind # "test" /\ call[c].st # "probing"

LEMMA MixingTypes ==
    ASSUME TypeOK, NEW c \in Call, NEW b \in Conn, mixed' \in {mixed, mixed \cup Mixing(c, b)}
    PROVE  mixed' \subseteq Call
<1>1. db.txOf[b] \in Call \cup {NoCall} /\ mixed \subseteq Call
  BY DEF TypeOK, Database
<1>2. Mixing(c, b) \subseteq Call
  BY <1>1 DEF Mixing
<1>3. QED
  BY <1>1, <1>2

LEMMA HasConnectionHas ==
    ASSUME Types, NEW c \in Call, call[c].kind # "test", HasConnection(c)
    PROVE  StatementOn(c, call[c].conn) /\ call[c].st \in Fresh /\ ~Over(c)
<1>1. call[c].conn \in Conn \cup {NoConn} /\ CallIsGiven(c)
  BY DEF Types, TypeOK, CallRecord, CallsAreGiven
<1>2. CASE Lite
  BY <1>1, <1>2 DEF HasConnection, StatementOn, CallIsGiven, Fresh, Over
<1>3. CASE ~Lite
  BY <1>1, <1>3 DEF HasConnection, StatementOn, CallIsGiven, Fresh, Over, Connected
<1>4. QED
  BY <1>2, <1>3

LEMMA InTxHas ==
    ASSUME Types, NEW c \in Call, InTx(c)
    PROVE  /\ StatementOn(c, call[c].conn) /\ call[c].st = "running" /\ ~Over(c)
           /\ call[c].kind = "transaction" /\ call[c].on \in Handle
<1>1. call[c].conn \in Conn \cup {NoConn} /\ CallIsGiven(c)
  BY DEF Types, TypeOK, CallRecord, CallsAreGiven
<1>2. QED
  BY <1>1 DEF InTx, StatementOn, CallIsGiven, Over, Connected, Within

(* The statement is the last of the call. *)
LEMMA LastStatement ==
    ASSUME Types, NEW c \in Call, StatementOn(c, call[c].conn), Rest,
           InPlaceOf(db, db'),
           mixed' \in {mixed, mixed \cup Mixing(c, call[c].conn)},
           NEW s \in {"answered", "failed"}, Ends(c, s)
    PROVE  /\ InPlace(c) /\ Types' /\ call'[c].st = s
           /\ call'[c].finished = call[c].finished /\ call'[c].caught = call[c].caught
<1>1. TypeOK /\ mixed' \subseteq Call
  BY MixingTypes DEF Types, StatementOn
<1>2. /\ OthersStay(c) /\ call'[c].st = s /\ call'[c].kind = call[c].kind /\ call'[c].conn = NoConn
      /\ call'[c].finished = call[c].finished /\ call'[c].caught = call[c].caught
  <2>1. s \in CallState
    BY DEF CallState
  <2>2. QED
    BY <1>1, <2>1, EndsFields
<1>3. InPlace(c)
  <2>1. ~Over(c) /\ call[c].st # "waiting"
    BY DEF StatementOn, Over, Connected, Within
  <2>2. QED
    BY <1>2, <2>1 DEF InPlace, InPlaceOf, StatementOn, Rest, poolVars
<1>4. Types'
  BY <1>1, <1>2, <1>3, InPlaceTypes DEF Rest, poolVars, Fresh, Within, Connected, Applied, Types, TypeOK
<1>5. QED
  BY <1>2, <1>3, <1>4

(* The function given to withTransaction goes on after the statement.      *)
LEMMA OneStatement ==
    ASSUME Types, NEW c \in Call, StatementOn(c, call[c].conn), Rest,
           InPlaceOf(db, db'),
           mixed' \in {mixed, mixed \cup Mixing(c, call[c].conn)},
           call[c].kind = "transaction", OthersStay(c), call'[c].st = "running",
           call'[c].kind = call[c].kind, call'[c].on = call[c].on, call'[c].gen = call[c].gen,
           call'[c].conn = call[c].conn
    PROVE  InPlace(c) /\ Types'
<1>1. TypeOK /\ mixed' \subseteq Call
  BY MixingTypes DEF Types, StatementOn
<1>2. InPlace(c)
  <2>1. ~Over(c) /\ call[c].st # "waiting"
    BY DEF StatementOn, Over, Connected, Within
  <2>2. QED
    BY <2>1 DEF InPlace, InPlaceOf, StatementOn, Rest, poolVars
<1>3. call[c].conn # NoConn
  BY DEF StatementOn, Conn, NoConn
<1>4. Types'
  BY <1>1, <1>2, <1>3, InPlaceTypes DEF Rest, poolVars, Fresh, Within, Connected, Applied, Types, TypeOK
<1>5. QED
  BY <1>2, <1>4

LEMMA WriteStep ==
    ASSUME Types, NEW c \in Call, WriteEnds(c), NEW b, b = call[c].conn
    PROVE  /\ InPlace(c) /\ Types' /\ b \in Conn /\ call[c].st \in Fresh
           /\ call'[c].finished = call[c].finished /\ call'[c].caught = call[c].caught
           /\ <<c, 1>> \in Write
           /\ \/ /\ CanWrite(db, b, dialect) /\ db' = Exec(db, b, <<c, 1>>)
                 /\ mixed' = mixed \cup Mixing(c, b) /\ call'[c].st = "answered"
              \/ db' = Fail(db, b, dialect) /\ mixed' = mixed /\ call'[c].st = "failed"
<1>1. StatementOn(c, b) /\ call[c].st \in Fresh /\ b \in Conn
  BY HasConnectionHas DEF WriteEnds, StatementOn
<1>2. Rest /\ db \in Database /\ <<c, 1>> \in Write
  BY DEF WriteEnds, Rest, Types, TypeOK, Write
<1>3. CASE CanWrite(db, b, dialect) /\ db' = Exec(db, b, <<c, 1>>)
           /\ mixed' = mixed \cup Mixing(c, b) /\ Ends(c, "answered")
  <2>1. InPlaceOf(db, db')
    BY <1>1, <1>2, <1>3, StatementsOpenNothing
  <2>2. QED
    BY <1>1, <1>2, <1>3, <2>1, LastStatement
<1>4. CASE db' = Fail(db, b, dialect) /\ mixed' = mixed /\ Ends(c, "failed")
  <2>1. InPlaceOf(db, db')
    BY <1>1, <1>2, <1>4, StatementsOpenNothing
  <2>2. QED
    BY <1>1, <1>2, <1>4, <2>1, LastStatement
<1>5. QED
  BY <1>3, <1>4 DEF WriteEnds

LEMMA CompoundStep ==
    ASSUME Types, NEW c \in Call, CompoundRuns(c), NEW b, b = call[c].conn,
           NEW t, t = Exec(db, b, <<c, 1>>)
    PROVE  /\ InPlace(c) /\ Types' /\ b \in Conn /\ call[c].st \in Fresh /\ call[c].kind = "compound"
           /\ call'[c].finished = call[c].finished /\ call'[c].caught = call[c].caught
           /\ ~Lite => call[c].st \in Connected
           /\ \/ /\ CanWrite(db, b, dialect) /\ mixed' = mixed \cup Mixing(c, b)
                 /\ \/ db' = Exec(t, b, <<c, 2>>) /\ call'[c].st = "applied"
                    \/ db' = t /\ call'[c].st = "failed"
              \/ db' = Fail(db, b, dialect) /\ mixed' = mixed /\ call'[c].st = "failed"
<1>1. /\ StatementOn(c, b) /\ call[c].st \in Fresh /\ b \in Conn /\ call[c].kind = "compound" /\ ~Over(c)
      /\ ~Lite => call[c].st \in Connected
  BY HasConnectionHas DEF CompoundRuns, StatementOn, HasConnection, Connected
<1>2. Rest /\ db \in Database /\ TypeOK /\ <<c, 1>> \in Write /\ <<c, 2>> \in Write
  BY DEF CompoundRuns, Rest, Types, TypeOK, Write
<1>3. InPlaceOf(db, t) /\ t \in Database
  BY <1>1, <1>2, StatementsOpenNothing DEF InPlaceOf
<1>4. CASE /\ CanWrite(db, b, dialect) /\ mixed' = mixed \cup Mixing(c, b)
           /\ db' = Exec(t, b, <<c, 2>>) /\ Goes(c, "applied")
  <2>1. InPlaceOf(t, db')
    BY <1>1, <1>2, <1>3, <1>4, StatementsOpenNothing
  <2>2. InPlaceOf(db, db')
    BY <1>3, <2>1 DEF InPlaceOf
  <2>3. /\ OthersStay(c) /\ call'[c].st = "applied" /\ call'[c].kind = call[c].kind
        /\ call'[c].on = call[c].on /\ call'[c].gen = call[c].gen /\ call'[c].conn = call[c].conn
        /\ call'[c].finished = call[c].finished /\ call'[c].caught = call[c].caught
    <3>1. "applied" \in CallState
      BY DEF CallState
    <3>2. QED
      BY <1>2, <1>4, <3>1, GoesFields
  <2>4. InPlace(c)
    BY <1>1, <1>2, <2>2, <2>3 DEF InPlace, StatementOn, Connected, Within, Rest, poolVars
  <2>5. mixed' \subseteq Call /\ caps' \subseteq Handle
    BY <1>1, <1>2, <1>4, MixingTypes DEF Rest, poolVars, TypeOK
  <2>6. ~Lite /\ call[c].finished = "no"
    <3>1. CallIsGiven(c)
      BY DEF Types, CallsAreGiven
    <3>2. QED
      BY <1>1, <3>1 DEF CallIsGiven, Lite
  <2>7. Types'
    BY <1>1, <2>3, <2>4, <2>5, <2>6, InPlaceTypes DEF Fresh, Within, Connected, Applied
  <2>8. QED
    BY <1>1, <1>4, <2>3, <2>4, <2>7
<1>5. CASE CanWrite(db, b, dialect) /\ mixed' = mixed \cup Mixing(c, b) /\ db' = t /\ Ends(c, "failed")
  BY <1>1, <1>2, <1>3, <1>5, LastStatement
<1>6. CASE db' = Fail(db, b, dialect) /\ mixed' = mixed /\ Ends(c, "failed")
  <2>1. InPlaceOf(db, db')
    BY <1>1, <1>2, <1>6, StatementsOpenNothing
  <2>2. QED
    BY <1>1, <1>2, <1>6, <2>1, LastStatement
<1>7. QED
  BY <1>4, <1>5, <1>6 DEF CompoundRuns

LEMMA ControlStep ==
    ASSUME Types, NEW c \in Call, ControlPasses(c), NEW b, b = call[c].conn
    PROVE  /\ InPlace(c) /\ Types' /\ b \in Conn /\ call[c].st \in Fresh /\ call[c].kind = "control"
           /\ call'[c].finished = call[c].finished /\ call'[c].caught = call[c].caught
           /\ \/ /\ CanBegin(db, b, dialect) /\ db' = Begin(db, b, c, dialect)
                 /\ mixed' = mixed \cup Mixing(c, b) /\ call'[c].st = "answered"
              \/ /\ b \in db.open /\ db.txOf[b] # NoCall
                 /\ db' = Commit(db, b) \/ db' = Rollback(db, b)
                 /\ mixed' = mixed \cup Mixing(c, b) /\ call'[c].st = "answered"
              \/ db' = Fail(db, b, dialect) /\ mixed' = mixed /\ call'[c].st = "failed"
<1>1. StatementOn(c, b) /\ call[c].st \in Fresh /\ b \in Conn /\ call[c].kind = "control"
  BY HasConnectionHas DEF ControlPasses, StatementOn
<1>2. Rest /\ db \in Database
  BY DEF ControlPasses, Rest, Types, TypeOK
<1>3. CASE CanBegin(db, b, dialect) /\ db' = Begin(db, b, c, dialect)
           /\ mixed' = mixed \cup Mixing(c, b) /\ Ends(c, "answered")
  <2>1. InPlaceOf(db, db')
    BY <1>1, <1>2, <1>3, StatementsOpenNothing
  <2>2. QED
    BY <1>1, <1>2, <1>3, <2>1, LastStatement
<1>4. CASE /\ b \in db.open /\ db.txOf[b] # NoCall
           /\ db' \in {Commit(db, b), Rollback(db, b)}
           /\ mixed' = mixed \cup Mixing(c, b) /\ Ends(c, "answered")
  <2>1. InPlaceOf(db, db')
    <3>1. CASE db' = Commit(db, b)
      BY <1>1, <1>2, <3>1, StatementsOpenNothing
    <3>2. CASE db' = Rollback(db, b)
      BY <1>1, <1>2, <3>2, StatementsOpenNothing
    <3>3. QED
      BY <1>4, <3>1, <3>2
  <2>2. QED
    BY <1>1, <1>2, <1>4, <2>1, LastStatement
<1>5. CASE db' = Fail(db, b, dialect) /\ mixed' = mixed /\ Ends(c, "failed")
  <2>1. InPlaceOf(db, db')
    BY <1>1, <1>2, <1>5, StatementsOpenNothing
  <2>2. QED
    BY <1>1, <1>2, <1>5, <2>1, LastStatement
<1>6. QED
  BY <1>3, <1>4, <1>5 DEF ControlPasses

LEMMA TxBeginStep ==
    ASSUME Types, NEW c \in Call, TxBegins(c), NEW b, b = call[c].conn
    PROVE  /\ InPlace(c) /\ Types' /\ b \in Conn /\ call[c].st \in Fresh
           /\ call[c].kind = "transaction"
           /\ call'[c].finished = call[c].finished /\ call'[c].caught = call[c].caught
           /\ \/ /\ CanBegin(db, b, dialect) /\ db' = Begin(db, b, c, dialect)
                 /\ mixed' = mixed \cup Mixing(c, b)
                 /\ call'[c].st = "running" /\ call'[c].conn = b
              \/ db' = db /\ mixed' = mixed /\ call'[c].st = "failed"
<1>1. /\ StatementOn(c, b) /\ call[c].st \in Fresh /\ b \in Conn
      /\ call[c].kind = "transaction"
  BY HasConnectionHas DEF TxBegins, StatementOn
<1>2. Rest /\ db \in Database /\ TypeOK
  BY DEF TxBegins, Rest, Types, TypeOK
<1>3. CASE CanBegin(db, b, dialect) /\ db' = Begin(db, b, c, dialect)
           /\ mixed' = mixed \cup Mixing(c, b) /\ Goes(c, "running")
  <2>1. InPlaceOf(db, db')
    BY <1>1, <1>2, <1>3, StatementsOpenNothing
  <2>2. "running" \in CallState
    BY DEF CallState
  <2>3. /\ OthersStay(c) /\ call'[c].st = "running"
        /\ call'[c].kind = call[c].kind /\ call'[c].on = call[c].on /\ call'[c].gen = call[c].gen
        /\ call'[c].conn = call[c].conn
        /\ call'[c].finished = call[c].finished /\ call'[c].caught = call[c].caught
    BY <1>2, <1>3, <2>2, GoesFields
  <2>4. InPlace(c) /\ Types'
    BY <1>1, <1>2, <1>3, <2>1, <2>3, OneStatement
  <2>5. QED
    BY <1>1, <1>3, <2>3, <2>4
<1>4. CASE db' = db /\ mixed' = mixed /\ Ends(c, "failed")
  <2>1. InPlaceOf(db, db')
    BY <1>1, <1>2, <1>4, StatementsOpenNothing
  <2>2. QED
    BY <1>1, <1>2, <1>4, <2>1, LastStatement
<1>5. QED
  BY <1>3, <1>4 DEF TxBegins

LEMMA TxWriteStep ==
    ASSUME Types, NEW c \in Call, TxWrites(c), NEW b, b = call[c].conn
    PROVE  /\ InPlace(c) /\ Types' /\ b \in Conn /\ call[c].st = "running"
           /\ call'[c].st = "running" /\ call'[c].conn = b
           /\ call'[c].finished = call[c].finished
           /\ \/ /\ CanWrite(db, b, dialect) /\ call'[c].caught = call[c].caught
                 /\ \E w \in Write : w[1] = c /\ db' = Exec(db, b, w)
                 /\ mixed' = mixed \cup Mixing(c, b)
              \/ /\ dialect = "postgresql" /\ call'[c].caught
                 /\ db' = Fail(db, b, dialect) /\ mixed' = mixed
<1>1. /\ StatementOn(c, b) /\ call[c].st = "running" /\ b \in Conn
      /\ call[c].kind = "transaction"
  BY InTxHas DEF TxWrites, Statement, StatementOn
<1>2. Rest /\ db \in Database /\ TypeOK /\ call[c] \in CallRecord
  BY DEF TxWrites, Rest, Types, TypeOK
<1> DEFINE m == call[c].n + 1
<1>3. m \in 0 .. MaxStatements /\ m \in 1 .. 2
  BY <1>2, StatementAssumption DEF TxWrites, Statement, StatementAssumption, CallRecord
<1>4. PICK w \in Write : w = <<c, m>> /\ w[1] = c
  <2> HIDE DEF m
  <2>1. <<c, m>> \in Write /\ <<c, m>>[1] = c
    BY <1>3 DEF Write
  <2>2. QED
    BY <2>1
<1>5. CASE CanWrite(db, b, dialect) /\ db' = Exec(db, b, w)
           /\ mixed' = mixed \cup Mixing(c, b) /\ call' = [call EXCEPT ![c].n = m]
  <2> DEFINE r == [call[c] EXCEPT !.n = m]
  <2>1. /\ r \in CallRecord /\ r.st = call[c].st /\ r.kind = call[c].kind /\ r.on = call[c].on
        /\ r.gen = call[c].gen /\ r.conn = call[c].conn
        /\ r.finished = call[c].finished /\ r.caught = call[c].caught
    BY <1>2, <1>3 DEF CallRecord
  <2>2. call' = [call EXCEPT ![c] = r]
    BY <1>5
  <2> HIDE DEF r
  <2>3. OthersStay(c) /\ call'[c] = r
    BY <1>2, <2>1, <2>2, CallFields DEF OthersStay, TypeOK
  <2>4. InPlaceOf(db, db')
    BY <1>1, <1>2, <1>5, StatementsOpenNothing
  <2>5. InPlace(c) /\ Types'
    BY <1>1, <1>2, <1>5, <2>1, <2>3, <2>4, OneStatement
  <2>6. QED
    BY <1>1, <1>4, <1>5, <2>1, <2>3, <2>5
<1>6. CASE dialect = "postgresql" /\ db' = Fail(db, b, dialect) /\ mixed' = mixed
           /\ call' = [call EXCEPT ![c] = [@ EXCEPT !.n = m, !.caught = TRUE]]
  <2> DEFINE r == [call[c] EXCEPT !.n = m, !.caught = TRUE]
  <2>1. /\ r \in CallRecord /\ r.st = call[c].st /\ r.kind = call[c].kind /\ r.on = call[c].on
        /\ r.gen = call[c].gen /\ r.conn = call[c].conn
        /\ r.finished = call[c].finished /\ r.caught = TRUE
    BY <1>2, <1>3 DEF CallRecord
  <2>2. call' = [call EXCEPT ![c] = r]
    BY <1>6
  <2> HIDE DEF r
  <2>3. OthersStay(c) /\ call'[c] = r
    BY <1>2, <2>1, <2>2, CallFields DEF OthersStay, TypeOK
  <2>4. InPlaceOf(db, db')
    BY <1>1, <1>2, <1>6, StatementsOpenNothing
  <2>5. InPlace(c) /\ Types'
    BY <1>1, <1>2, <1>6, <2>1, <2>3, <2>4, OneStatement
  <2>6. QED
    BY <1>1, <1>6, <2>1, <2>3, <2>5
<1>7. QED
  BY <1>1, <1>4, <1>5, <1>6 DEF TxWrites

LEMMA TxFinishStep ==
    ASSUME Types, NEW c \in Call, NEW how \in {"commit", "rollback"}, TxFinishes(c, how),
           NEW b, b = call[c].conn
    PROVE  /\ InPlace(c) /\ Types' /\ b \in Conn /\ call[c].st = "running" /\ call[c].finished = "no"
           /\ b \in db.open /\ db.txOf[b] # NoCall
           /\ db' = IF how = "commit" THEN Commit(db, b) ELSE Rollback(db, b)
           /\ mixed' = mixed \cup Mixing(c, b)
           /\ call'[c].finished = how /\ call'[c].caught = call[c].caught
           /\ \/ call'[c].st = "running" /\ call'[c].conn = b
              \/ call'[c].st = "answered" /\ how = "commit"
              \/ call'[c].st = "failed" /\ how = "rollback"
<1>1. /\ StatementOn(c, b) /\ call[c].st = "running" /\ b \in Conn
      /\ call[c].kind = "transaction"
  BY InTxHas DEF TxFinishes, StatementOn
<1>2. Rest /\ db \in Database /\ TypeOK /\ call[c] \in CallRecord
  BY DEF TxFinishes, Rest, Types, TypeOK
<1>3. /\ call[c].finished = "no" /\ b \in db.open /\ db.txOf[b] # NoCall
      /\ db' = IF how = "commit" THEN Commit(db, b) ELSE Rollback(db, b)
      /\ mixed' = mixed \cup Mixing(c, b)
  BY DEF TxFinishes
<1>4. InPlaceOf(db, db')
  <2>1. CASE how = "commit"
    BY <1>1, <1>2, <1>3, <2>1, StatementsOpenNothing
  <2>2. CASE how # "commit"
    BY <1>1, <1>2, <1>3, <2>2, StatementsOpenNothing
  <2>3. QED
    BY <2>1, <2>2
<1> DEFINE q == [call[c] EXCEPT !.finished = how]
           over == IF how = "commit" THEN "answered" ELSE "failed"
           r == IF ~Knex THEN q ELSE Settled(q, over)
<1>5. /\ q \in CallRecord /\ q.st = call[c].st /\ q.kind = call[c].kind /\ q.on = call[c].on
      /\ q.gen = call[c].gen /\ q.conn = call[c].conn
      /\ q.finished = how /\ q.caught = call[c].caught
  BY <1>2 DEF CallRecord
<1>6. call' = [call EXCEPT ![c] = r]
  BY DEF TxFinishes
<1> HIDE DEF q
<1>7. CASE ~Knex
  <2>1. OthersStay(c) /\ call'[c] = q
    BY <1>2, <1>5, <1>6, <1>7, CallFields DEF OthersStay, TypeOK
  <2>2. InPlace(c) /\ Types'
    BY <1>1, <1>2, <1>3, <1>4, <1>5, <2>1, OneStatement
  <2>3. QED
    BY <1>1, <1>3, <1>5, <2>1, <2>2
<1>8. CASE Knex
  <2> DEFINE z == Settled(q, over)
  <2>1. /\ z \in CallRecord /\ z.st = over /\ z.kind = call[c].kind
        /\ z.conn = NoConn /\ z.finished = how /\ z.caught = call[c].caught
    <3>1. 0 \in 0 .. MaxInstances /\ 0 \in 0 .. MaxStatements
      BY PoolAssumption, StatementAssumption DEF PoolAssumption, StatementAssumption
    <3>2. over \in CallState
      BY DEF CallState
    <3> HIDE DEF over
    <3>3. QED
      BY <1>5, <3>1, <3>2 DEF CallRecord, Settled
  <2>2. call' = [call EXCEPT ![c] = z]
    BY <1>6, <1>8
  <2> HIDE DEF z
  <2>3. OthersStay(c) /\ call'[c] = z
    BY <1>2, <2>1, <2>2, CallFields DEF OthersStay, TypeOK
  <2>4. mixed' \subseteq Call
    BY <1>1, <1>2, <1>3, MixingTypes
  <2>5. InPlace(c)
    <3>1. ~Over(c) /\ call[c].st # "waiting"
      BY <1>1 DEF Over
    <3>2. over \in {"answered", "failed"}
      OBVIOUS
    <3> HIDE DEF over
    <3>3. QED
      BY <1>1, <1>2, <1>4, <2>1, <2>3, <3>1, <3>2 DEF InPlace, Rest, poolVars
  <2>6. Types'
    BY <1>2, <2>1, <2>3, <2>4, <2>5, InPlaceTypes DEF Rest, poolVars, Fresh, Within, Connected, Applied, TypeOK
  <2>7. QED
    BY <1>1, <1>3, <2>1, <2>3, <2>5, <2>6
<1>9. QED
  BY <1>7, <1>8

LEMMA TxReturnStep ==
    ASSUME Types, NEW c \in Call, TxReturns(c), NEW b, b = call[c].conn
    PROVE  /\ InPlace(c) /\ Types' /\ b \in Conn /\ call[c].st = "running"
           /\ call'[c].finished = call[c].finished /\ call'[c].caught = call[c].caught
           /\ \/ /\ call[c].finished # "no" /\ db' = db /\ mixed' = mixed
                 /\ call'[c].st = "answered"
              \/ /\ call[c].finished = "no" /\ b \in db.open /\ db.txOf[b] # NoCall
                 /\ mixed' = mixed \cup Mixing(c, b)
                 /\ \/ db' = Commit(db, b) /\ call'[c].st = "answered"
                    \/ db' = Rollback(db, b) /\ call'[c].st = "failed"
              \/ /\ call[c].finished = "no" /\ (b \notin db.open \/ db.txOf[b] = NoCall)
                 /\ db' = db /\ mixed' = mixed /\ call'[c].st = "failed"
<1>1. /\ StatementOn(c, b) /\ call[c].st = "running" /\ b \in Conn
  BY InTxHas DEF TxReturns, StatementOn
<1>2. Rest /\ db \in Database
  BY DEF TxReturns, Rest, Types, TypeOK
<1>3. CASE call[c].finished # "no"
  <2>1. db' = db /\ mixed' = mixed /\ Ends(c, "answered")
    BY <1>3 DEF TxReturns
  <2>2. InPlaceOf(db, db')
    BY <1>1, <1>2, <2>1, StatementsOpenNothing
  <2>3. QED
    BY <1>1, <1>2, <1>3, <2>1, <2>2, LastStatement
<1>4. CASE call[c].finished = "no" /\ b \in db.open /\ db.txOf[b] # NoCall
  <2>1. /\ mixed' = mixed \cup Mixing(c, b)
        /\ \/ db' = Commit(db, b) /\ Ends(c, "answered")
           \/ db' = Rollback(db, b) /\ Ends(c, "failed")
    BY <1>4 DEF TxReturns
  <2>2. InPlaceOf(db, db')
    BY <1>1, <1>2, <2>1, StatementsOpenNothing
  <2>3. QED
    BY <1>1, <1>2, <1>4, <2>1, <2>2, LastStatement
<1>5. CASE call[c].finished = "no" /\ (b \notin db.open \/ db.txOf[b] = NoCall)
  <2>1. db' = db /\ mixed' = mixed /\ Ends(c, "failed")
    BY <1>5 DEF TxReturns
  <2>2. InPlaceOf(db, db')
    BY <1>1, <1>2, <2>1, StatementsOpenNothing
  <2>3. QED
    BY <1>1, <1>2, <1>5, <2>1, <2>2, LastStatement
<1>6. QED
  BY <1>3, <1>4, <1>5

LEMMA TxThrowStep ==
    ASSUME Types, NEW c \in Call, TxThrows(c), NEW b, b = call[c].conn
    PROVE  /\ InPlace(c) /\ Types' /\ b \in Conn /\ call[c].st = "running"
           /\ call'[c].finished = call[c].finished /\ call'[c].caught = call[c].caught
           /\ call'[c].st = "failed"
           /\ \/ /\ call[c].finished = "no" /\ b \in db.open
                 /\ db' = Rollback(db, b) /\ mixed' = mixed \cup Mixing(c, b)
              \/ /\ call[c].finished # "no" \/ b \notin db.open
                 /\ db' = db /\ mixed' = mixed
<1>1. /\ StatementOn(c, b) /\ call[c].st = "running" /\ b \in Conn
  BY InTxHas DEF TxThrows, StatementOn
<1>2. Rest /\ db \in Database /\ Ends(c, "failed")
  BY DEF TxThrows, Rest, Types, TypeOK
<1>3. CASE call[c].finished = "no" /\ b \in db.open
  <2>1. db' = Rollback(db, b) /\ mixed' = mixed \cup Mixing(c, b)
    BY <1>3 DEF TxThrows
  <2>2. InPlaceOf(db, db')
    BY <1>1, <1>2, <2>1, StatementsOpenNothing
  <2>3. QED
    BY <1>1, <1>2, <1>3, <2>1, <2>2, LastStatement
<1>4. CASE ~(call[c].finished = "no" /\ b \in db.open)
  <2>1. db' = db /\ mixed' = mixed
    BY <1>4 DEF TxThrows
  <2>2. InPlaceOf(db, db')
    BY <1>1, <1>2, <2>1, StatementsOpenNothing
  <2>3. QED
    BY <1>1, <1>2, <1>4, <2>1, <2>2, LastStatement
<1>5. QED
  BY <1>3, <1>4

LEMMA TxRetryStep ==
    ASSUME Types, NEW c \in Call, TxRetries(c), NEW b, b = call[c].conn
    PROVE  /\ InPlace(c) /\ Types' /\ b \in Conn /\ call[c].st = "running"
           /\ dialect = "mongodb" /\ call[c].finished = "no" /\ b \in db.open
           /\ call'[c].st = "running" /\ call'[c].conn = b
           /\ call'[c].finished = call[c].finished /\ call'[c].caught = call[c].caught
           /\ mixed' = mixed
           /\ db' = Forgotten(Begin(Rollback(db, b), b, c, dialect), c)
<1>1. /\ StatementOn(c, b) /\ call[c].st = "running" /\ b \in Conn
      /\ call[c].kind = "transaction"
  BY InTxHas DEF TxRetries, StatementOn
<1>2. Rest /\ db \in Database /\ TypeOK /\ call[c] \in CallRecord
  BY DEF TxRetries, Rest, Types, TypeOK
<1>3. /\ dialect = "mongodb" /\ call[c].finished = "no" /\ b \in db.open /\ mixed' = mixed
      /\ db' = Forgotten(Begin(Rollback(db, b), b, c, dialect), c)
      /\ call' = [call EXCEPT ![c] = [@ EXCEPT !.n = 0, !.again = TRUE]]
  BY DEF TxRetries
<1>4. InPlaceOf(db, db')
  <2>1. PICK d : d = Rollback(db, b)
    OBVIOUS
  <2>2. InPlaceOf(db, d)
    BY <1>1, <1>2, <2>1, StatementsOpenNothing
  <2>3. PICK e : e = Begin(d, b, c, dialect)
    OBVIOUS
  <2>4. d \in Database
    BY <2>2 DEF InPlaceOf
  <2>5. InPlaceOf(d, e)
    BY <1>1, <2>3, <2>4, StatementsOpenNothing
  <2>6. e \in Database /\ db' = Forgotten(e, c)
    BY <1>3, <2>1, <2>3, <2>5 DEF InPlaceOf
  <2>7. InPlaceOf(e, db')
    BY <1>1, <2>6, StatementsOpenNothing
  <2>8. QED
    BY <2>2, <2>5, <2>7 DEF InPlaceOf
<1> DEFINE r == [call[c] EXCEPT !.n = 0, !.again = TRUE]
<1>5. /\ r \in CallRecord /\ r.st = call[c].st /\ r.kind = call[c].kind /\ r.on = call[c].on
      /\ r.gen = call[c].gen /\ r.conn = call[c].conn
      /\ r.finished = call[c].finished /\ r.caught = call[c].caught
  <2>1. 0 \in 0 .. MaxStatements
    BY StatementAssumption DEF StatementAssumption
  <2>2. QED
    BY <1>2, <2>1 DEF CallRecord
<1>6. call' = [call EXCEPT ![c] = r]
  BY <1>3
<1> HIDE DEF r
<1>7. OthersStay(c) /\ call'[c] = r
  BY <1>2, <1>5, <1>6, CallFields DEF OthersStay, TypeOK
<1>8. InPlace(c) /\ Types'
  BY <1>1, <1>2, <1>3, <1>4, <1>5, <1>7, OneStatement
<1>9. QED
  BY <1>1, <1>3, <1>5, <1>7, <1>8

LEMMA ImportStep ==
    ASSUME Types, NEW c \in Call, Imports(c), NEW b, b = call[c].conn,
           NEW t, t = Exec(db, b, <<c, 1>>)
    PROVE  /\ InPlace(c) /\ Types' /\ b \in Conn /\ call[c].st \in Fresh /\ call[c].kind = "import"
           /\ call'[c].finished = call[c].finished /\ call'[c].caught = call[c].caught
           /\ \/ /\ CanWrite(db, b, dialect) /\ mixed' = mixed \cup Mixing(c, b)
                 /\ \/ /\ CanBegin(t, b, dialect)
                       /\ db' = Commit(Exec(Begin(t, b, c, dialect), b, <<c, 2>>), b)
                       /\ call'[c].st = "answered"
                    \/ db' = t /\ call'[c].st = "failed"
              \/ db' = db /\ mixed' = mixed /\ call'[c].st = "failed"
<1>1. /\ StatementOn(c, b) /\ call[c].st \in Fresh /\ b \in Conn /\ call[c].kind = "import"
  BY HasConnectionHas DEF Imports, StatementOn
<1>2. Rest /\ db \in Database /\ <<c, 1>> \in Write /\ <<c, 2>> \in Write
  BY DEF Imports, Rest, Types, TypeOK, Write
<1>3. InPlaceOf(db, t) /\ t \in Database
  BY <1>1, <1>2, StatementsOpenNothing DEF InPlaceOf
<1>4. CASE /\ CanWrite(db, b, dialect) /\ mixed' = mixed \cup Mixing(c, b)
           /\ CanBegin(t, b, dialect)
           /\ db' = Commit(Exec(Begin(t, b, c, dialect), b, <<c, 2>>), b)
           /\ Ends(c, "answered")
  <2>1. PICK d : d = Begin(t, b, c, dialect)
    OBVIOUS
  <2>2. InPlaceOf(t, d) /\ d \in Database
    BY <1>1, <1>3, <2>1, StatementsOpenNothing DEF InPlaceOf
  <2>3. PICK e : e = Exec(d, b, <<c, 2>>)
    OBVIOUS
  <2>4. InPlaceOf(d, e) /\ e \in Database
    BY <1>1, <1>2, <2>2, <2>3, StatementsOpenNothing DEF InPlaceOf
  <2>5. InPlaceOf(e, db')
    BY <1>1, <1>4, <2>1, <2>3, <2>4, StatementsOpenNothing
  <2>6. InPlaceOf(db, db')
    BY <1>3, <2>2, <2>4, <2>5 DEF InPlaceOf
  <2>7. QED
    BY <1>1, <1>2, <1>4, <2>6, LastStatement
<1>5. CASE CanWrite(db, b, dialect) /\ mixed' = mixed \cup Mixing(c, b) /\ db' = t /\ Ends(c, "failed")
  BY <1>1, <1>2, <1>3, <1>5, LastStatement
<1>6. CASE db' = db /\ mixed' = mixed /\ Ends(c, "failed")
  <2>1. InPlaceOf(db, db')
    BY <1>1, <1>2, <1>6, StatementsOpenNothing
  <2>2. QED
    BY <1>1, <1>2, <1>6, <2>1, LastStatement
<1>7. QED
  BY <1>4, <1>5, <1>6 DEF Imports

-----------------------------------------------------------------------------
(* The steps that open and close connections.                              *)

LEMMA OpenStep ==
    ASSUME TypeOK, db.made < MaxConns, NEW i \in Instance, db' = Opened(db, i)
    PROVE  /\ db' \in Database /\ Opens /\ db'.home = [db.home EXCEPT ![db.made + 1] = i]
           /\ db'.made \in Nat /\ db.made \in Nat
<1>1. db \in Database
  BY DEF TypeOK
<1>2. /\ db' \in Database /\ db'.made = db.made + 1 /\ db'.made \in Conn
      /\ db'.open = db.open \cup {db.made + 1}
      /\ db'.home = [db.home EXCEPT ![db.made + 1] = i]
      /\ db'.txOf = db.txOf /\ db'.aborted = db.aborted /\ db'.dirty = db.dirty
      /\ db'.durable = db.durable /\ db'.written = db.written
  BY <1>1, OpenedFields
<1>3. QED
  BY <1>1, <1>2 DEF Opens, Database

LEMMA CloseStep ==
    ASSUME TypeOK, NEW b \in Conn, db' = Close(db, b)
    PROVE  /\ db' \in Database /\ Closes /\ db'.home = db.home /\ db'.made = db.made
           /\ db'.open = db.open \ {b}
<1>1. db \in Database
  BY DEF TypeOK
<1>2. /\ db' \in Database /\ db'.made = db.made /\ db'.open = db.open \ {b} /\ db'.home = db.home
      /\ db'.txOf = [db.txOf EXCEPT ![b] = NoCall]
      /\ db'.aborted = db.aborted \ {b} /\ db'.dirty = [db.dirty EXCEPT ![b] = {}]
      /\ db'.durable = db.durable /\ db'.written = db.written
  BY <1>1, CloseFields
<1>3. PICK S \in SUBSET Conn : S = {b}
  OBVIOUS
<1>4. \A o \in Conn : /\ db'.txOf[o] = IF o \in S THEN NoCall ELSE db.txOf[o]
                      /\ db'.dirty[o] = IF o \in S THEN {} ELSE db.dirty[o]
  BY <1>1, <1>2, <1>3 DEF Database
<1>5. Closes
  BY <1>2, <1>3, <1>4 DEF Closes
<1>6. QED
  BY <1>2, <1>5

LEMMA CloseAllStep ==
    ASSUME TypeOK, NEW S \in SUBSET Conn, db' = CloseAll(db, S)
    PROVE  /\ db' \in Database /\ Closes /\ db'.home = db.home /\ db'.made = db.made
           /\ db'.open = db.open \ S
<1>1. db \in Database
  BY DEF TypeOK
<1>2. /\ db' \in Database /\ db'.made = db.made /\ db'.open = db.open \ S /\ db'.home = db.home
      /\ db'.txOf = [b \in Conn |-> IF b \in S THEN NoCall ELSE db.txOf[b]]
      /\ db'.aborted = db.aborted \ S
      /\ db'.dirty = [b \in Conn |-> IF b \in S THEN {} ELSE db.dirty[b]]
      /\ db'.durable = db.durable /\ db'.written = db.written
  BY <1>1, CloseAllFields
<1>3. Closes
  BY <1>2 DEF Closes
<1>4. QED
  BY <1>2, <1>3

(* A call that stays as it is keeps what it has. *)
LEMMA SameIsGiven ==
    ASSUME Types, db' \in Database, db'.made >= db.made, dialect' = dialect,
           NEW c \in Call, call'[c] = call[c]
    PROVE  CallIsGiven(c)'
<1>1. call[c].conn \in Nat /\ db.made \in Nat /\ db'.made \in Nat
  BY ConnectionAssumption DEF Types, TypeOK, CallRecord, Database, ConnectionAssumption, Conn, NoConn
<1>2. QED
  BY <1>1 DEF Types, CallsAreGiven, CallIsGiven, Lite, Over

(* Numbers given to connections stay below the next one. *)
LEMMA NumbersGrow ==
    ASSUME TypeOK, StoreIsKept, db' \in Database, Opens \/ db' = db
    PROVE  /\ \A b \in db'.open : b <= db'.made
           /\ entry <= db'.made
           /\ \A h \in Handle : promise[h] <= db'.made
           /\ \A c \in Call : call[c].conn <= db.made => call[c].conn <= db'.made
<1>1. db.made \in Int /\ db'.made \in Int
  BY DEF TypeOK, Database
<1>2. CASE Opens
  <2>1. db'.made = db.made + 1 /\ db'.open = db.open \cup {db'.made}
    BY <1>2 DEF Opens
  <2>2. \A n \in Int : n <= db.made => n <= db'.made
    BY <1>1, <2>1
  <2>3. \A b \in db.open : b \in Int
    BY DEF TypeOK, Database, Conn
  <2>4. entry \in Int /\ (\A h \in Handle : promise[h] \in Int) /\ \A c \in Call : call[c].conn \in Int
    BY DEF TypeOK, Conn, NoConn, Pending, Rejected, CallRecord
  <2>5. QED
    BY <1>1, <2>1, <2>2, <2>3, <2>4 DEF StoreIsKept
<1>3. CASE db' = db
  BY <1>3 DEF StoreIsKept
<1>4. QED
  BY <1>2, <1>3

LEMMA SameProgresses ==
    ASSUME NEW c \in Call, OthersStay(c), Progresses(c)
    PROVE  \A d \in Call : Progresses(d)
BY DEF OthersStay, Progresses

LEMMA StartLiteStep ==
    ASSUME Types, NEW c \in Call, NEW h \in Handle, NEW k \in kindsOf[c], StartLite(c, h, k)
    PROVE  /\ Types' /\ Calm /\ KeepsConns /\ OthersStay(c) /\ call[c].st = "none" /\ db' = db
           /\ call'[c].kind = k /\ k # "test" /\ k \in Kind
           /\ \/ promise[h] = Rejected /\ call'[c].st = "failed"
              \/ /\ call'[c].st = "waiting" /\ call'[c].on = h
                 /\ call'[c].conn = IF promise'[h] > 0 THEN promise'[h] ELSE NoConn
<1>1. TypeOK /\ call[c] \in CallRecord /\ CallIsGiven(c) /\ call[c].st = "none" /\ Lite
      /\ db \in Database /\ db.made \in Nat /\ db' = db /\ dialect' = dialect /\ mixed' = mixed
  BY DEF Types, TypeOK, StartLite, CallsAreGiven, AskBackend, Database
<1>2. k \in Kind /\ k # "test" /\ k # "compound"
  <2>1. k \in Kind
    BY StatementAssumption DEF StatementAssumption
  <2>2. k # "test" /\ k # "compound"
    BY <1>1 DEF StartLite, Supports, Lite
  <2>3. QED
    BY <2>1, <2>2
<1>3. /\ promise' \in [Handle -> Conn \cup {NoConn, Pending, Rejected}]
      /\ \A g \in Handle \ {h} : promise'[g] = promise[g]
      /\ promise'[h] = IF promise[h] = NoConn THEN Found ELSE promise[h]
      /\ promise'[h] <= db.made
      /\ promise[h] = Rejected => promise'[h] = Rejected
      /\ promise'[h] > 0 => promise'[h] \in Conn
  <2>1. Found \in Conn \cup {Pending} /\ Found <= db.made
    BY <1>1, ConnectionAssumption DEF Found, TypeOK, Types, StoreIsKept, Pending, Conn, ConnectionAssumption
  <2>2. promise[h] \in Conn \cup {NoConn, Pending, Rejected} /\ promise[h] <= db.made
    BY DEF Types, TypeOK, StoreIsKept
  <2>3. promise' = IF promise[h] = NoConn THEN [promise EXCEPT ![h] = Found] ELSE promise
    BY DEF StartLite
  <2>4. QED
    BY <1>1, <2>1, <2>2, <2>3 DEF TypeOK, Conn, NoConn, Pending, Rejected
<1> DEFINE w == [call[c] EXCEPT !.st = "waiting", !.kind = k, !.on = h,
                                !.conn = IF promise'[h] > 0 THEN promise'[h] ELSE NoConn]
           f == Settled([call[c] EXCEPT !.kind = k], "failed")
<1>4. /\ OthersStay(c) /\ call'[c].kind = k /\ call'[c].finished = call[c].finished
      /\ \/ promise[h] = Rejected /\ call'[c].st = "failed" /\ call'[c].conn = NoConn /\ call'[c].on = NoHandle
         \/ /\ call'[c].st = "waiting" /\ call'[c].on = h
            /\ call'[c].conn = IF promise'[h] > 0 THEN promise'[h] ELSE NoConn
  <2>1. CASE promise[h] = Rejected
    <3>1. 0 \in 0 .. MaxInstances /\ 0 \in 0 .. MaxStatements
      BY PoolAssumption, StatementAssumption DEF PoolAssumption, StatementAssumption
    <3>2. /\ f \in CallRecord /\ f.st = "failed" /\ f.conn = NoConn /\ f.on = NoHandle
          /\ f.kind = k /\ f.finished = call[c].finished
      BY <1>1, <1>2, <3>1 DEF CallRecord, CallState, Settled
    <3>3. call' = [call EXCEPT ![c] = f]
      BY <2>1 DEF StartLite
    <3> HIDE DEF f
    <3>4. QED
      BY <1>1, <2>1, <3>2, <3>3, CallFields DEF OthersStay, TypeOK
  <2>2. CASE promise[h] # Rejected
    <3>1. PICK n \in Conn \cup {NoConn} : n = IF promise'[h] > 0 THEN promise'[h] ELSE NoConn
      BY <1>3
    <3>2. w = [call[c] EXCEPT !.st = "waiting", !.kind = k, !.on = h, !.conn = n]
      BY <3>1
    <3>3. call' = [call EXCEPT ![c] = w]
      BY <2>2 DEF StartLite
    <3> HIDE DEF w
    <3>4. /\ w \in CallRecord /\ w.st = "waiting" /\ w.conn = n /\ w.on = h
          /\ w.kind = k /\ w.finished = call[c].finished
      BY <1>1, <1>2, <3>2 DEF CallRecord, CallState
    <3>5. QED
      BY <1>1, <2>2, <3>1, <3>3, <3>4, CallFields DEF OthersStay, TypeOK
  <2>3. QED
    BY <2>1, <2>2
<1>5. TypeOK'
  <2>1. entryRefs' \in Nat /\ opening' \subseteq Handle \cup Call /\ late' \subseteq Handle
    <3>1. entryRefs' \in {entryRefs, entryRefs + 1} /\ opening' \in {opening, opening \cup {h}}
          /\ late' \in {late, late \cup {h}}
      BY DEF StartLite, AskBackend, LateUse
    <3>2. QED
      BY <1>1, <3>1 DEF TypeOK
  <2>2. UNCHANGED <<entry, field, destroyed, raced, inst, gens, dying, caps>>
    BY DEF StartLite, AskBackend, poolVars
  <2>3. QED
    BY <1>1, <1>3, <1>4, <2>1, <2>2 DEF TypeOK, OthersStay
<1>6. CallsAreGiven'
  <2>1. CallIsGiven(c)'
    BY <1>1, <1>2, <1>3, <1>4 DEF CallIsGiven, Fresh, Connected, Within, Applied, Lite, Over, NoConn
  <2>2. ASSUME NEW d \in Call \ {c} PROVE CallIsGiven(d)'
    BY <1>1, <1>4, SameIsGiven DEF OthersStay
  <2>3. QED
    BY <2>1, <2>2 DEF CallsAreGiven
<1>7. StoreIsKept'
  <2>1. StoreIsKept /\ entry \in Conn \cup {NoConn} /\ entryRefs \in Nat
    BY DEF Types, TypeOK
  <2>2. UNCHANGED <<entry, destroyed, dying>>
    BY DEF StartLite, AskBackend, poolVars
  <2>3. \/ entryRefs' = entryRefs /\ opening' = opening
        \/ promise[h] = NoConn /\ Found = Pending /\ entryRefs' = entryRefs /\ opening' = opening \cup {h}
        \/ entry # NoConn /\ entryRefs' = entryRefs + 1 /\ opening' = opening
    BY DEF StartLite, AskBackend, Found
  <2>4. \A g \in opening' \cap Handle : promise'[g] = Pending
    BY <1>3, <2>1, <2>3 DEF StoreIsKept, Pending, NoConn
  <2>5. QED
    BY <1>1, <1>3, <2>1, <2>2, <2>3, <2>4 DEF StoreIsKept, Lite, File
<1>8. Calm
  <2>1. Progresses(c)
    BY <1>1, <1>4 DEF Progresses, Fresh
  <2>2. QED
    BY <1>1, <1>4, <2>1, StillCloses, SameProgresses DEF Calm
<1>9. KeepsConns
  BY <1>4 DEF KeepsConns, OthersStay, Connected, Within
<1>10. QED
  BY <1>1, <1>2, <1>4, <1>5, <1>6, <1>7, <1>8, <1>9 DEF Types

(* The calls that await the backend of handle h. *)
Awaits(c, h) == call[c].st = "waiting" /\ call[c].on = h /\ call[c].conn = NoConn

LEMMA AwaitsIsLite ==
    ASSUME Types, NEW h \in Handle, h \in opening
    PROVE  /\ Lite /\ promise[h] = Pending
           /\ \A c \in Call : Awaits(c, h) => call[c].kind # "test"
<1>1. Lite /\ promise[h] = Pending
  BY DEF Types, StoreIsKept
<1>2. ASSUME NEW c \in Call, Awaits(c, h) PROVE call[c].kind # "test"
  BY <1>2, ConnectionAssumption DEF Awaits, Types, CallsAreGiven, CallIsGiven, ConnectionAssumption
<1>3. QED
  BY <1>1, <1>2

LEMMA HandleOpensStep ==
    ASSUME Types, NEW h \in Handle, HandleOpens(h)
    PROVE  /\ Types' /\ Calm /\ KeepsConns /\ Lite /\ h \in opening
           /\ db' = Opened(db, <<NoHandle, 0>>) /\ db'.open = db.open \cup {db'.made}
           /\ db'.made = db.made + 1 /\ db'.made \in Conn /\ db.made \in Nat
           /\ \A c \in Call : /\ ~Awaits(c, h) => call'[c] = call[c]
                              /\ Awaits(c, h) =>
                                    /\ call'[c].conn = db'.made /\ call'[c].st = "waiting"
                                    /\ call'[c].kind = call[c].kind /\ call'[c].on = h
                                    /\ call'[c].gen = call[c].gen
<1>1. TypeOK /\ Lite /\ promise[h] = Pending /\ h \in opening
  BY AwaitsIsLite DEF HandleOpens, BackendOpens, Types
<1>2. /\ db' \in Database /\ Opens /\ db' = Opened(db, <<NoHandle, 0>>)
      /\ db'.made \in Nat /\ db.made \in Nat
  <2>1. <<NoHandle, 0>> \in Instance
    BY DEF Instance
  <2>2. db.made < MaxConns /\ db' = Opened(db, <<NoHandle, 0>>)
    BY DEF HandleOpens, BackendOpens
  <2>3. QED
    BY <1>1, <2>1, <2>2, OpenStep
<1>3. db'.made = db.made + 1 /\ db'.made \in Conn /\ db'.open = db.open \cup {db'.made}
  BY <1>2 DEF Opens
<1>4. ASSUME NEW c \in Call
      PROVE  /\ ~Awaits(c, h) => call'[c] = call[c]
             /\ Awaits(c, h) =>
                  /\ call'[c] \in CallRecord
                  /\ call'[c].conn = db'.made /\ call'[c].st = "waiting"
                  /\ call'[c].kind = call[c].kind /\ call'[c].on = h /\ call'[c].gen = call[c].gen
                  /\ call'[c].finished = call[c].finished
  <2>1. call'[c] = IF Awaits(c, h) THEN [call[c] EXCEPT !.conn = db'.made] ELSE call[c]
    BY DEF HandleOpens, Awaits
  <2>2. PICK n \in Conn : n = db'.made
    BY <1>3
  <2>3. call[c] \in CallRecord
    BY <1>1 DEF TypeOK
  <2>4. CASE Awaits(c, h)
    <3>1. call'[c] = [call[c] EXCEPT !.conn = n]
      BY <2>1, <2>2, <2>4
    <3>2. QED
      BY <2>2, <2>3, <2>4, <3>1 DEF CallRecord, Awaits
  <2>5. QED
    BY <2>1, <2>4
<1>5. TypeOK'
  <2>1. call' \in [Call -> CallRecord]
    <3>1. call' = [c \in Call |-> call'[c]]
      BY DEF HandleOpens
    <3>2. \A c \in Call : call'[c] \in CallRecord
      BY <1>1, <1>4 DEF TypeOK
    <3>3. QED
      BY <3>1, <3>2
  <2>2. /\ entry' \in Conn \cup {NoConn} /\ entryRefs' \in Nat /\ raced' \in BOOLEAN
        /\ opening' \subseteq Handle \cup Call /\ late' \subseteq Handle
        /\ promise' \in [Handle -> Conn \cup {NoConn, Pending, Rejected}]
    <3>1. /\ entry' \in {entry, db'.made} /\ entryRefs' \in {entryRefs, 1}
          /\ opening' = opening \ {h} /\ late' \in {late, late \cup {h}}
          /\ promise' = [promise EXCEPT ![h] = db'.made]
      BY DEF HandleOpens, BackendOpens, LateUse
    <3>2. raced' \in BOOLEAN
      BY DEF HandleOpens, BackendOpens
    <3>3. QED
      BY <1>1, <1>3, <3>1, <3>2 DEF TypeOK
  <2>3. UNCHANGED <<dialect, field, destroyed, inst, gens, dying, caps, mixed>>
    BY DEF HandleOpens, poolVars
  <2>4. QED
    BY <1>1, <1>2, <2>1, <2>2, <2>3 DEF TypeOK
<1>6. CallsAreGiven'
  <2>1. ASSUME NEW c \in Call, ~Awaits(c, h) PROVE CallIsGiven(c)'
    <3>1. dialect' = dialect /\ db'.made >= db.made
      BY <1>2, <1>3 DEF HandleOpens
    <3>2. QED
      BY <1>2, <1>4, <2>1, <3>1, SameIsGiven
  <2>2. ASSUME NEW c \in Call, Awaits(c, h) PROVE CallIsGiven(c)'
    <3>1. CallIsGiven(c) /\ call[c].kind # "test" /\ dialect' = dialect
      BY <1>1, <2>2, AwaitsIsLite DEF Types, CallsAreGiven, HandleOpens
    <3>2. QED
      BY <1>1, <1>2, <1>4, <2>2, <3>1 DEF CallIsGiven, Awaits, Fresh, Connected, Within, Lite, Over
  <2>3. QED
    BY <2>1, <2>2 DEF CallsAreGiven
<1>7. StoreIsKept'
  <2>1. StoreIsKept
    BY DEF Types
  <2>2. /\ entry' = (IF File THEN db'.made ELSE entry)
        /\ entryRefs' = (IF File THEN 1 ELSE entryRefs) /\ opening' = opening \ {h}
        /\ promise' = [promise EXCEPT ![h] = db'.made]
        /\ UNCHANGED <<dialect, destroyed, dying>>
    BY DEF HandleOpens, BackendOpens, poolVars
  <2>3. \A g \in Handle : promise'[g] = IF g = h THEN db'.made ELSE promise[g]
    BY <1>1, <2>2 DEF TypeOK
  <2>4. \A g \in Handle : promise[g] <= db.made => promise[g] <= db'.made
    BY <1>1, <1>2, <1>3 DEF TypeOK, Conn, NoConn, Pending, Rejected
  <2>5. entry <= db'.made
    BY <1>1, <1>2, <1>3, <2>1 DEF TypeOK, Conn, NoConn, StoreIsKept
  <2>6. db'.made # NoConn
    BY <1>3 DEF Conn, NoConn
  <2>7. QED
    BY <1>1, <1>2, <2>1, <2>2, <2>3, <2>4, <2>5, <2>6, NumbersGrow DEF StoreIsKept, Lite, File
<1>8. Calm
  <2>1. ASSUME NEW c \in Call PROVE Progresses(c)
    <3>1. call[c].st = "none" => call[c].kind = "read"
      BY DEF Types, CallsAreGiven, CallIsGiven
    <3>2. QED
      BY <1>4 DEF Progresses, Fresh, Awaits
  <2>2. QED
    BY <1>2, <2>1 DEF Calm, HandleOpens
<1>9. KeepsConns
  BY <1>4 DEF KeepsConns, Connected, Within, Awaits
<1>10. QED
  BY <1>1, <1>2, <1>3, <1>4, <1>5, <1>6, <1>7, <1>8, <1>9 DEF Types

LEMMA HandleFailsStep ==
    ASSUME Types, NEW h \in Handle, HandleFails(h)
    PROVE  /\ Types' /\ Calm /\ KeepsConns /\ Lite /\ h \in opening /\ db' = db
           /\ \A c \in Call : /\ ~Awaits(c, h) => call'[c] = call[c]
                              /\ Awaits(c, h) => /\ call'[c].st = "failed"
                                                 /\ call'[c].kind = call[c].kind
<1>1. TypeOK /\ Lite /\ promise[h] = Pending /\ h \in opening /\ db' = db
  BY AwaitsIsLite DEF HandleFails, BackendFails, Types
<1>2. ASSUME NEW c \in Call
      PROVE  /\ ~Awaits(c, h) => call'[c] = call[c]
             /\ Awaits(c, h) =>
                  /\ call'[c] \in CallRecord
                  /\ call'[c].conn = NoConn /\ call'[c].st = "failed"
                  /\ call'[c].kind = call[c].kind /\ call'[c].on = NoHandle
                  /\ call'[c].finished = call[c].finished
  <2>1. call'[c] = IF Awaits(c, h) THEN Settled(call[c], "failed") ELSE call[c]
    BY DEF HandleFails, Awaits
  <2>2. call[c] \in CallRecord /\ 0 \in 0 .. MaxInstances /\ 0 \in 0 .. MaxStatements
    BY <1>1, PoolAssumption, StatementAssumption DEF TypeOK, PoolAssumption, StatementAssumption
  <2>3. CASE Awaits(c, h)
    <3>1. call'[c] = Settled(call[c], "failed")
      BY <2>1, <2>3
    <3>2. QED
      BY <2>2, <2>3, <3>1 DEF CallRecord, CallState, Settled
  <2>4. QED
    BY <2>1, <2>3
<1>3. TypeOK'
  <2>1. call' \in [Call -> CallRecord]
    <3>1. call' = [c \in Call |-> call'[c]]
      BY DEF HandleFails
    <3>2. \A c \in Call : call'[c] \in CallRecord
      BY <1>1, <1>2 DEF TypeOK
    <3>3. QED
      BY <3>1, <3>2
  <2>2. /\ opening' = opening \ {h} /\ promise' = [promise EXCEPT ![h] = Rejected]
        /\ UNCHANGED <<entry, entryRefs, raced>>
        /\ UNCHANGED <<dialect, field, destroyed, inst, gens, dying, caps, mixed, late>>
    BY DEF HandleFails, BackendFails, poolVars
  <2>3. QED
    BY <1>1, <2>1, <2>2 DEF TypeOK
<1>4. CallsAreGiven'
  <2>1. ASSUME NEW c \in Call, ~Awaits(c, h) PROVE CallIsGiven(c)'
    <3>1. dialect' = dialect /\ db'.made >= db.made /\ db' \in Database
      BY <1>1 DEF HandleFails, TypeOK, Database
    <3>2. QED
      BY <1>2, <2>1, <3>1, SameIsGiven
  <2>2. ASSUME NEW c \in Call, Awaits(c, h) PROVE CallIsGiven(c)'
    <3>1. CallIsGiven(c) /\ db.made \in Nat
      BY <1>1 DEF Types, CallsAreGiven, TypeOK, Database
    <3>2. QED
      BY <1>1, <1>2, <2>2, <3>1, AwaitsIsLite DEF CallIsGiven, Fresh, Connected, Within, Applied, Over, NoConn, HandleFails
  <2>3. QED
    BY <2>1, <2>2 DEF CallsAreGiven
<1>5. StoreIsKept'
  <2>1. StoreIsKept /\ db.made \in Nat
    BY DEF Types, TypeOK, Database
  <2>2. /\ opening' = opening \ {h} /\ promise' = [promise EXCEPT ![h] = Rejected]
        /\ UNCHANGED <<entry, entryRefs, dialect, destroyed, dying>>
    BY DEF HandleFails, BackendFails, poolVars
  <2>3. \A g \in Handle : promise'[g] = IF g = h THEN Rejected ELSE promise[g]
    BY <1>1, <2>2 DEF TypeOK
  <2>4. QED
    BY <1>1, <2>1, <2>2, <2>3 DEF StoreIsKept, Lite, File, Rejected
<1>6. Calm
  <2>1. ASSUME NEW c \in Call PROVE Progresses(c)
    BY <1>2 DEF Progresses, Fresh, Awaits
  <2>2. QED
    BY <1>1, <2>1, StillCloses DEF Calm, HandleFails
<1>7. KeepsConns
  BY <1>2 DEF KeepsConns, Connected, Within
<1>8. QED
  BY <1>1, <1>2, <1>3, <1>4, <1>5, <1>6, <1>7 DEF Types

LEMMA GetsBackendStep ==
    ASSUME Types, NEW c \in Call, GetsBackend(c)
    PROVE  /\ Types' /\ Calm /\ KeepsConns /\ OthersStay(c) /\ Lite /\ db' = db
           /\ call[c].st = "waiting" /\ call[c].kind # "test" /\ call[c].on \in Handle
           /\ call[c].conn \in Conn /\ call'[c].st = "ready" /\ call'[c].kind = call[c].kind
<1>1. /\ TypeOK /\ CallIsGiven(c) /\ call[c] \in CallRecord
      /\ call[c].st = "waiting" /\ call[c].conn # NoConn /\ Goes(c, "ready")
      /\ UNCHANGED <<dialect, db, entry, entryRefs, opening, promise, raced, destroyed, poolVars, mixed>>
  BY DEF Types, TypeOK, CallsAreGiven, GetsBackend
<1>2. Lite /\ call[c].kind # "test" /\ call[c].on \in Handle /\ call[c].conn \in Conn
  BY <1>1 DEF CallIsGiven, Over, CallRecord
<1>3. /\ OthersStay(c) /\ call'[c].st = "ready"
      /\ call'[c].kind = call[c].kind /\ call'[c].on = call[c].on
      /\ call'[c].conn = call[c].conn /\ call'[c].finished = call[c].finished
  <2>1. "ready" \in CallState
    BY DEF CallState
  <2>2. QED
    BY <1>1, <2>1, GoesFields
<1>4. TypeOK'
  <2>1. field' \in [Handle -> Conn \cup {NoConn}] /\ late' \subseteq Handle
    <3>1. field' = [field EXCEPT ![call[c].on] = call[c].conn] /\ late' \in {late, late \cup {call[c].on}}
      BY DEF GetsBackend, LateUse
    <3>2. QED
      BY <1>1, <1>2, <3>1 DEF TypeOK
  <2>2. QED
    BY <1>1, <1>3, <2>1 DEF TypeOK, OthersStay, poolVars
<1>5. CallsAreGiven'
  <2>1. db' \in Database /\ db'.made >= db.made /\ db.made \in Nat
    BY <1>1 DEF TypeOK, Database
  <2>2. ASSUME NEW d \in Call \ {c} PROVE CallIsGiven(d)'
    BY <1>1, <1>3, <2>1, SameIsGiven DEF OthersStay
  <2>3. CallIsGiven(c)'
    BY <1>1, <1>2, <1>3 DEF CallIsGiven, Fresh, Connected, Within, Applied, Lite, Over
  <2>4. QED
    BY <2>2, <2>3 DEF CallsAreGiven
<1>6. StoreIsKept'
  BY <1>1, <1>2 DEF Types, StoreIsKept, Lite, File, poolVars
<1>7. Calm
  <2>1. Progresses(c)
    BY <1>1, <1>3 DEF Progresses, Fresh
  <2>2. QED
    BY <1>1, <1>3, <2>1, StillCloses, SameProgresses DEF Calm
<1>8. KeepsConns
  BY <1>3 DEF KeepsConns, OthersStay, Connected, Within
<1>9. QED
  BY <1>1, <1>2, <1>3, <1>4, <1>5, <1>6, <1>7, <1>8 DEF Types

(* getKnex and getClient make an instance at most once at a time. *)
LEMMA GetInstanceStep ==
    ASSUME TypeOK, NEW h \in Handle, GetInstance(h)
    PROVE  /\ inst' \in [Handle -> 0 .. MaxInstances] /\ gens' \in [Handle -> 0 .. MaxInstances]
           /\ \A g \in Handle \ {h} : inst'[g] = inst[g] /\ gens'[g] = gens[g]
           /\ inst[h] # 0 => inst'[h] = inst[h] /\ gens'[h] = gens[h]
           /\ inst[h] = 0 => inst'[h] = gens[h] + 1 /\ gens'[h] = gens[h] + 1
           /\ dying' = dying /\ caps' = caps
<1>1. CASE inst[h] = 0
  <2>1. gens[h] + 1 \in 0 .. MaxInstances
    BY <1>1, PoolAssumption DEF GetInstance, TypeOK, PoolAssumption
  <2>2. gens' = [gens EXCEPT ![h] = gens[h] + 1] /\ inst' = [inst EXCEPT ![h] = gens[h] + 1]
    BY <1>1 DEF GetInstance
  <2>3. QED
    BY <1>1, <2>1, <2>2 DEF GetInstance, TypeOK
<1>2. CASE inst[h] # 0
  BY <1>2 DEF GetInstance, TypeOK
<1>3. QED
  BY <1>1, <1>2

LEMMA StartServerStep ==
    ASSUME Types, NEW c \in Call, NEW h \in Handle, NEW k \in kindsOf[c], StartServer(c, h, k)
    PROVE  /\ Types' /\ Calm /\ KeepsConns /\ OthersStay(c) /\ call[c].st = "none" /\ db' = db
           /\ ~Lite /\ GetInstance(h) /\ k # "test"
           /\ call'[c].kind = k /\ call'[c].on = h /\ call'[c].gen = inst'[h]
           /\ call'[c].st \in {"waiting", "ready"}
<1>1. /\ TypeOK /\ CallIsGiven(c) /\ call[c] \in CallRecord /\ call[c].st = "none" /\ ~Lite
      /\ GetInstance(h) /\ k # "test"
      /\ UNCHANGED <<dialect, db, storeVars, destroyed, mixed>>
  BY DEF Types, TypeOK, CallsAreGiven, StartServer, Supports
<1>2. k \in Kind
  BY StatementAssumption DEF StatementAssumption
<1>3. /\ inst' \in [Handle -> 0 .. MaxInstances] /\ gens' \in [Handle -> 0 .. MaxInstances]
      /\ dying' = dying /\ caps' = caps
  BY <1>1, GetInstanceStep
<1> DEFINE s == IF dialect = "mongodb" /\ inst[h] = 0 THEN "waiting" ELSE "ready"
           r == [call[c] EXCEPT !.st = s, !.kind = k, !.on = h, !.gen = inst'[h]]
<1>4. s \in {"waiting", "ready"}
  OBVIOUS
<1>5. call' = [call EXCEPT ![c] = r]
  BY DEF StartServer
<1> HIDE DEF s
<1>6. /\ r \in CallRecord /\ r.st = s /\ r.kind = k /\ r.on = h /\ r.gen = inst'[h]
      /\ r.conn = call[c].conn /\ r.finished = call[c].finished
  <2>1. PICK g \in 0 .. MaxInstances : g = inst'[h]
    BY <1>3
  <2>2. r = [call[c] EXCEPT !.st = s, !.kind = k, !.on = h, !.gen = g]
    BY <2>1
  <2> HIDE DEF r
  <2>3. QED
    BY <1>1, <1>2, <1>4, <2>1, <2>2 DEF CallRecord, CallState
<1> HIDE DEF r
<1>7. OthersStay(c) /\ call'[c] = r
  BY <1>1, <1>5, <1>6, CallFields DEF OthersStay, TypeOK
<1>8. TypeOK'
  <2>1. late' \subseteq Handle
    <3>1. late' \in {late, late \cup {h}}
      BY DEF StartServer, LateUse
    <3>2. QED
      BY <1>1, <3>1 DEF TypeOK
  <2>2. QED
    BY <1>1, <1>3, <1>7, <2>1 DEF TypeOK, OthersStay, storeVars
<1>9. CallsAreGiven'
  <2>1. db' \in Database /\ db'.made >= db.made /\ db.made \in Nat
    BY <1>1 DEF TypeOK, Database
  <2>2. ASSUME NEW d \in Call \ {c} PROVE CallIsGiven(d)'
    BY <1>1, <1>7, <2>1, SameIsGiven DEF OthersStay
  <2>3. /\ k = "control" => dialect # "mongodb"
        /\ k = "compound" => dialect \in {"mysql", "mongodb"}
    BY DEF StartServer, Supports
  <2>4. CallIsGiven(c)'
    BY <1>1, <1>4, <1>6, <1>7, <2>3 DEF CallIsGiven, Fresh, Connected, Within, Applied, Lite, Over
  <2>5. QED
    BY <2>2, <2>4 DEF CallsAreGiven
<1>10. StoreIsKept'
  BY <1>1, <1>3 DEF Types, StoreIsKept, Lite, File, storeVars
<1>11. Calm
  <2>1. Progresses(c)
    BY <1>1, <1>4, <1>6, <1>7 DEF Progresses, Fresh
  <2>2. QED
    BY <1>1, <1>7, <2>1, StillCloses, SameProgresses DEF Calm
<1>12. KeepsConns
  BY <1>4, <1>6, <1>7 DEF KeepsConns, OthersStay, Connected, Within
<1>13. QED
  BY <1>1, <1>4, <1>6, <1>7, <1>8, <1>9, <1>10, <1>11, <1>12 DEF Types

(* A connection of a pool is an idle one or a new one. *)
LEMMA AcquiredStep ==
    ASSUME TypeOK, \A o \in db.open : o <= db.made,
           NEW h \in Handle, NEW g \in Nat, NEW b \in Conn,
           CanAcquire(h, g, b, Held), db' = Acquired(h, g, b)
    PROVE  /\ db' \in Database /\ db'.made >= db.made /\ b <= db'.made /\ b \in db'.open
           /\ db'.home[b] = <<h, g>> /\ g # dying[h]
           /\ \/ db' = db /\ b \notin Held
              \/ /\ Opens /\ b = db.made + 1
                 /\ db'.home = [db.home EXCEPT ![b] = <<h, g>>]
<1>1. db \in Database /\ db.made \in Nat /\ g # dying[h]
  BY DEF TypeOK, Database, CanAcquire
<1>2. CASE b \in ConnsOf(h, g) \ Held
  <2>1. b \in db.open /\ db.home[b] = <<h, g>> /\ b \notin Held
    BY <1>2 DEF ConnsOf
  <2>2. db' = db
    BY <2>1 DEF Acquired
  <2>3. QED
    BY <1>1, <2>1, <2>2
<1>3. CASE b = db.made + 1 /\ db.made < MaxConns
  <2>1. b \notin db.open
    BY <1>1, <1>3
  <2>2. db' = Opened(db, <<h, g>>) /\ <<h, g>> \in Instance
    BY <2>1 DEF Acquired, Instance
  <2>3. /\ db' \in Database /\ Opens /\ db'.home = [db.home EXCEPT ![db.made + 1] = <<h, g>>]
    BY <1>3, <2>2, OpenStep
  <2>4. db'.made = b /\ b \in db'.open /\ db'.home[b] = <<h, g>>
    BY <1>1, <1>3, <2>3 DEF Opens, Database
  <2>5. QED
    BY <1>1, <1>3, <2>3, <2>4
<1>4. QED
  BY <1>2, <1>3 DEF CanAcquire

LEMMA AcquiresStep ==
    ASSUME Types, NEW c \in Call, Acquires(c)
    PROVE  /\ Types' /\ Calm /\ OthersStay(c) /\ ~Lite
           /\ call[c].st = "ready" /\ call[c].kind # "test" /\ call'[c].st = "holding"
           /\ call'[c].kind = call[c].kind /\ call'[c].on = call[c].on /\ call'[c].gen = call[c].gen
           /\ call[c].on \in Handle /\ call[c].gen \in Nat /\ call'[c].conn \in Conn
           /\ CanAcquire(call[c].on, call[c].gen, call'[c].conn, Held)
           /\ db' = Acquired(call[c].on, call[c].gen, call'[c].conn)
<1>1. /\ TypeOK /\ CallIsGiven(c) /\ call[c] \in CallRecord /\ call[c].st = "ready" /\ ~Lite
      /\ call[c].kind # "test"
      /\ UNCHANGED <<dialect, storeVars, destroyed, poolVars, mixed, late>>
  BY DEF Types, TypeOK, CallsAreGiven, Acquires
<1>2. PICK b \in Conn :
        /\ CanAcquire(call[c].on, call[c].gen, b, Held)
        /\ db' = Acquired(call[c].on, call[c].gen, b)
        /\ call' = [call EXCEPT ![c] = [@ EXCEPT !.st = "holding", !.conn = b]]
  BY DEF Acquires
<1>3. call[c].on \in Handle /\ call[c].gen \in Nat
  BY <1>1 DEF CallIsGiven, Over, CallRecord
<1>4. /\ db' \in Database /\ db'.made >= db.made /\ b <= db'.made
      /\ Opens \/ db' = db
  BY <1>1, <1>2, <1>3, AcquiredStep DEF Types, StoreIsKept
<1> DEFINE r == [call[c] EXCEPT !.st = "holding", !.conn = b]
<1>5. /\ r \in CallRecord /\ r.st = "holding" /\ r.kind = call[c].kind /\ r.on = call[c].on
      /\ r.gen = call[c].gen /\ r.conn = b /\ r.finished = call[c].finished
  BY <1>1 DEF CallRecord, CallState
<1>6. call' = [call EXCEPT ![c] = r]
  BY <1>2
<1> HIDE DEF r
<1>7. OthersStay(c) /\ call'[c] = r
  BY <1>1, <1>5, <1>6, CallFields DEF OthersStay, TypeOK
<1>8. TypeOK'
  BY <1>1, <1>4, <1>7 DEF TypeOK, OthersStay, storeVars, poolVars
<1>9. CallsAreGiven'
  <2>1. ASSUME NEW d \in Call \ {c} PROVE CallIsGiven(d)'
    BY <1>1, <1>4, <1>7, SameIsGiven DEF OthersStay
  <2>2. b # NoConn
    BY DEF Conn, NoConn
  <2>3. CallIsGiven(c)'
    BY <1>1, <1>3, <1>4, <1>5, <1>7, <2>2 DEF CallIsGiven, Fresh, Connected, Within, Applied, Lite, Over
  <2>4. QED
    BY <2>1, <2>3 DEF CallsAreGiven
<1>10. StoreIsKept'
  <2>1. StoreIsKept
    BY DEF Types
  <2>2. /\ \A o \in db'.open : o <= db'.made
        /\ entry <= db'.made /\ \A o \in Handle : promise[o] <= db'.made
    BY <1>1, <1>4, <2>1, NumbersGrow
  <2>3. QED
    BY <1>1, <2>1, <2>2 DEF StoreIsKept, Lite, File, storeVars, poolVars
<1>11. Calm
  <2>1. Progresses(c)
    BY <1>1, <1>5, <1>7 DEF Progresses, Fresh
  <2>2. QED
    BY <1>1, <1>4, <1>7, <2>1, StillCloses, SameProgresses DEF Calm
<1>12. QED
  BY <1>1, <1>2, <1>3, <1>5, <1>7, <1>8, <1>9, <1>10, <1>11 DEF Types

LEMMA TxProbesStep ==
    ASSUME Types, NEW c \in Call, TxProbes(c)
    PROVE  /\ Types' /\ Calm /\ KeepsConns /\ OthersStay(c) /\ db' = db /\ ~Lite
           /\ call[c].st = "running" /\ GetInstance(call[c].on) /\ call[c].on \in Handle
           /\ call'[c].kind = call[c].kind /\ call[c].kind = "transaction"
           /\ call'[c].on = call[c].on /\ call'[c].gen = inst'[call[c].on] /\ call'[c].st = "probing"
<1>1. /\ TypeOK /\ CallIsGiven(c) /\ call[c] \in CallRecord /\ call[c].st = "running" /\ ~Lite
      /\ GetInstance(call[c].on) /\ call[c].n < MaxStatements
      /\ UNCHANGED <<dialect, db, storeVars, destroyed, mixed>>
  BY DEF Types, TypeOK, CallsAreGiven, TxProbes, Statement, InTx, Lite
<1>2. call[c].on \in Handle /\ call[c].kind = "transaction"
  BY <1>1, InTxHas DEF InTx
<1>3. /\ inst' \in [Handle -> 0 .. MaxInstances] /\ gens' \in [Handle -> 0 .. MaxInstances]
      /\ dying' = dying /\ caps' = caps
  BY <1>1, <1>2, GetInstanceStep
<1> DEFINE r == [call[c] EXCEPT !.st = "probing", !.n = call[c].n + 1, !.gen = inst'[call[c].on]]
<1>4. /\ r \in CallRecord /\ r.st = "probing" /\ r.kind = call[c].kind /\ r.on = call[c].on
      /\ r.gen = inst'[call[c].on] /\ r.conn = call[c].conn
      /\ r.finished = call[c].finished /\ r.caught = call[c].caught
  <2>1. PICK g \in 0 .. MaxInstances : g = inst'[call[c].on]
    BY <1>2, <1>3
  <2>2. PICK m \in 0 .. MaxStatements : m = call[c].n + 1
    BY <1>1, StatementAssumption DEF StatementAssumption, CallRecord
  <2>3. r = [call[c] EXCEPT !.st = "probing", !.n = m, !.gen = g]
    BY <1>1, <2>1, <2>2 DEF CallRecord
  <2> HIDE DEF r
  <2>4. QED
    BY <1>1, <2>1, <2>3 DEF CallRecord, CallState
<1>5. call' = [call EXCEPT ![c] = r]
  BY DEF TxProbes
<1> HIDE DEF r
<1>6. OthersStay(c) /\ call'[c] = r
  BY <1>1, <1>4, <1>5, CallFields DEF OthersStay, TypeOK
<1>7. TypeOK'
  <2>1. late' \subseteq Handle
    <3>1. late' \in {late, late \cup {call[c].on}}
      BY DEF TxProbes, LateUse
    <3>2. QED
      BY <1>1, <1>2, <3>1 DEF TypeOK
  <2>2. QED
    BY <1>1, <1>3, <1>6, <2>1 DEF TypeOK, OthersStay, storeVars
<1>8. CallsAreGiven'
  <2>1. db' \in Database /\ db'.made >= db.made /\ db.made \in Nat
    BY <1>1 DEF TypeOK, Database
  <2>2. ASSUME NEW d \in Call \ {c} PROVE CallIsGiven(d)'
    BY <1>1, <1>6, <2>1, SameIsGiven DEF OthersStay
  <2>3. CallIsGiven(c)'
    BY <1>1, <1>2, <1>4, <1>6 DEF CallIsGiven, Fresh, Connected, Within, Applied, Lite, Over
  <2>4. QED
    BY <2>2, <2>3 DEF CallsAreGiven
<1>9. StoreIsKept'
  BY <1>1, <1>3 DEF Types, StoreIsKept, Lite, File, storeVars
<1>10. Calm
  <2>1. Progresses(c)
    BY <1>1, <1>4, <1>6 DEF Progresses, Within
  <2>2. QED
    BY <1>1, <1>6, <2>1, StillCloses, SameProgresses DEF Calm
<1>11. KeepsConns
  BY <1>1, <1>4, <1>6 DEF KeepsConns, OthersStay, Connected, Within
<1>12. QED
  BY <1>1, <1>2, <1>4, <1>6, <1>7, <1>8, <1>9, <1>10, <1>11 DEF Types

LEMMA ProbeAnswersStep ==
    ASSUME Types, NEW c \in Call, ProbeAnswers(c), NEW h, h = call[c].on, NEW g, g = call[c].gen
    PROVE  /\ Types' /\ Calm /\ KeepsConns /\ OthersStay(c)
           /\ call[c].st = "probing" /\ call[c].kind = "transaction" /\ h \in Handle /\ g \in Nat
           /\ call'[c].kind = call[c].kind /\ call'[c].on = h /\ call'[c].gen = g
           /\ call'[c].st = "running"
           /\ \E b \in Conn : CanAcquire(h, g, b, Held) /\ db' = Acquired(h, g, b)
<1>1. /\ TypeOK /\ CallIsGiven(c) /\ call[c] \in CallRecord /\ call[c].st = "probing"
      /\ Goes(c, "running") /\ caps' = caps \cup {h}
      /\ UNCHANGED <<dialect, storeVars, destroyed, inst, gens, dying, mixed, late>>
  BY DEF Types, TypeOK, CallsAreGiven, ProbeAnswers
<1>2. PICK b \in Conn : CanAcquire(h, g, b, Held) /\ db' = Acquired(h, g, b)
  BY DEF ProbeAnswers
<1>3. h \in Handle /\ g \in Nat /\ call[c].kind = "transaction"
  BY <1>1 DEF CallIsGiven, Over, CallRecord, Within
<1>4. /\ db' \in Database /\ db'.made >= db.made
      /\ Opens \/ db' = db
  BY <1>1, <1>2, <1>3, AcquiredStep DEF Types, StoreIsKept
<1>5. /\ OthersStay(c) /\ call'[c].st = "running" /\ call'[c].kind = call[c].kind
      /\ call'[c].on = call[c].on /\ call'[c].gen = call[c].gen /\ call'[c].conn = call[c].conn
      /\ call'[c].finished = call[c].finished /\ call'[c].caught = call[c].caught
  <2>1. "running" \in CallState
    BY DEF CallState
  <2>2. QED
    BY <1>1, <2>1, GoesFields
<1>6. TypeOK'
  BY <1>1, <1>3, <1>4, <1>5 DEF TypeOK, OthersStay, storeVars
<1>7. CallsAreGiven'
  <2>1. ASSUME NEW d \in Call \ {c} PROVE CallIsGiven(d)'
    BY <1>1, <1>4, <1>5, SameIsGiven DEF OthersStay
  <2>2. call[c].conn <= db'.made
    <3>1. call[c].conn \in Nat /\ db.made \in Nat /\ db'.made \in Nat
      BY <1>1, <1>4 DEF TypeOK, CallRecord, Database, Conn, NoConn
    <3>2. QED
      BY <1>1, <1>4, <3>1 DEF CallIsGiven
  <2>3. CallIsGiven(c)'
    BY <1>1, <1>3, <1>5, <2>2 DEF CallIsGiven, Fresh, Connected, Within, Applied, Lite, Over
  <2>4. QED
    BY <2>1, <2>3 DEF CallsAreGiven
<1>8. StoreIsKept'
  <2>1. StoreIsKept
    BY DEF Types
  <2>2. /\ \A o \in db'.open : o <= db'.made
        /\ entry <= db'.made /\ \A o \in Handle : promise[o] <= db'.made
    BY <1>1, <1>4, <2>1, NumbersGrow
  <2>3. QED
    BY <1>1, <2>1, <2>2 DEF StoreIsKept, Lite, File, storeVars
<1>9. Calm
  <2>1. Progresses(c)
    BY <1>1, <1>5 DEF Progresses, Within
  <2>2. QED
    BY <1>1, <1>4, <1>5, <2>1, StillCloses, SameProgresses DEF Calm
<1>10. KeepsConns
  BY <1>1, <1>5 DEF KeepsConns, OthersStay, Connected, Within
<1>11. QED
  BY <1>1, <1>2, <1>3, <1>5, <1>6, <1>7, <1>8, <1>9, <1>10 DEF Types

(* The rows of a compound write are read back. *)
LEMMA RereadAsksStep ==
    ASSUME Types, NEW c \in Call, RereadAsks(c)
    PROVE  /\ Types' /\ Calm /\ KeepsConns /\ OthersStay(c) /\ db' = db /\ ~Lite
           /\ call[c].st = "applied" /\ GetInstance(call[c].on) /\ call[c].on \in Handle
           /\ call'[c].kind = call[c].kind /\ call[c].kind = "compound"
           /\ call'[c].on = call[c].on /\ call'[c].gen = inst'[call[c].on] /\ call'[c].st = "rereading"
<1>1. /\ TypeOK /\ CallIsGiven(c) /\ call[c] \in CallRecord /\ call[c].st = "applied" /\ ~Lite
      /\ GetInstance(call[c].on) /\ call[c].n < MaxStatements
      /\ UNCHANGED <<dialect, db, storeVars, destroyed, mixed>>
  BY DEF Types, TypeOK, CallsAreGiven, RereadAsks, Lite
<1>2. call[c].on \in Handle /\ call[c].kind = "compound"
  BY <1>1 DEF CallIsGiven, Over, Applied
<1>3. /\ inst' \in [Handle -> 0 .. MaxInstances] /\ gens' \in [Handle -> 0 .. MaxInstances]
      /\ dying' = dying /\ caps' = caps
  BY <1>1, <1>2, GetInstanceStep
<1> DEFINE r == [call[c] EXCEPT !.st = "rereading", !.n = call[c].n + 1, !.gen = inst'[call[c].on]]
<1>4. /\ r \in CallRecord /\ r.st = "rereading" /\ r.kind = call[c].kind /\ r.on = call[c].on
      /\ r.gen = inst'[call[c].on] /\ r.conn = call[c].conn
      /\ r.finished = call[c].finished /\ r.caught = call[c].caught
  <2>1. PICK g \in 0 .. MaxInstances : g = inst'[call[c].on]
    BY <1>2, <1>3
  <2>2. PICK m \in 0 .. MaxStatements : m = call[c].n + 1
    BY <1>1, StatementAssumption DEF StatementAssumption, CallRecord
  <2>3. r = [call[c] EXCEPT !.st = "rereading", !.n = m, !.gen = g]
    BY <1>1, <2>1, <2>2 DEF CallRecord
  <2> HIDE DEF r
  <2>4. QED
    BY <1>1, <2>1, <2>3 DEF CallRecord, CallState
<1>5. call' = [call EXCEPT ![c] = r]
  BY DEF RereadAsks
<1> HIDE DEF r
<1>6. OthersStay(c) /\ call'[c] = r
  BY <1>1, <1>4, <1>5, CallFields DEF OthersStay, TypeOK
<1>7. TypeOK'
  <2>1. late' \subseteq Handle
    <3>1. late' \in {late, late \cup {call[c].on}}
      BY DEF RereadAsks, LateUse
    <3>2. QED
      BY <1>1, <1>2, <3>1 DEF TypeOK
  <2>2. QED
    BY <1>1, <1>3, <1>6, <2>1 DEF TypeOK, OthersStay, storeVars
<1>8. CallsAreGiven'
  <2>1. db' \in Database /\ db'.made >= db.made /\ db.made \in Nat
    BY <1>1 DEF TypeOK, Database
  <2>2. ASSUME NEW d \in Call \ {c} PROVE CallIsGiven(d)'
    BY <1>1, <1>6, <2>1, SameIsGiven DEF OthersStay
  <2>3. CallIsGiven(c)'
    BY <1>1, <1>2, <1>4, <1>6 DEF CallIsGiven, Fresh, Connected, Within, Applied, Lite, Over
  <2>4. QED
    BY <2>2, <2>3 DEF CallsAreGiven
<1>9. StoreIsKept'
  BY <1>1, <1>3 DEF Types, StoreIsKept, Lite, File, storeVars
<1>10. Calm
  <2>1. Progresses(c)
    BY <1>1, <1>4, <1>6 DEF Progresses, Applied
  <2>2. QED
    BY <1>1, <1>6, <2>1, StillCloses, SameProgresses DEF Calm
<1>11. KeepsConns
  BY <1>1, <1>4, <1>6 DEF KeepsConns, OthersStay, Connected, Within, Applied
<1>12. QED
  BY <1>1, <1>2, <1>4, <1>6, <1>7, <1>8, <1>9, <1>10, <1>11 DEF Types

LEMMA RereadAnswersStep ==
    ASSUME Types, NEW c \in Call, RereadAnswers(c), NEW h, h = call[c].on, NEW g, g = call[c].gen
    PROVE  /\ Types' /\ Calm /\ KeepsConns /\ OthersStay(c)
           /\ call[c].st = "rereading" /\ call[c].kind = "compound" /\ h \in Handle /\ g \in Nat
           /\ call'[c].kind = call[c].kind /\ call'[c].on = h /\ call'[c].gen = g
           /\ call'[c].st = "applied"
           /\ \E b \in Conn : CanAcquire(h, g, b, Held) /\ db' = Acquired(h, g, b)
<1>1. /\ TypeOK /\ CallIsGiven(c) /\ call[c] \in CallRecord /\ call[c].st = "rereading"
      /\ Goes(c, "applied")
      /\ UNCHANGED <<dialect, storeVars, destroyed, poolVars, mixed, late>>
  BY DEF Types, TypeOK, CallsAreGiven, RereadAnswers
<1>2. PICK b \in Conn : CanAcquire(h, g, b, Held) /\ db' = Acquired(h, g, b)
  BY DEF RereadAnswers
<1>3. h \in Handle /\ g \in Nat /\ call[c].kind = "compound"
  BY <1>1 DEF CallIsGiven, Over, CallRecord, Applied
<1>4. /\ db' \in Database /\ db'.made >= db.made
      /\ Opens \/ db' = db
  BY <1>1, <1>2, <1>3, AcquiredStep DEF Types, StoreIsKept
<1>5. /\ OthersStay(c) /\ call'[c].st = "applied" /\ call'[c].kind = call[c].kind
      /\ call'[c].on = call[c].on /\ call'[c].gen = call[c].gen /\ call'[c].conn = call[c].conn
      /\ call'[c].finished = call[c].finished /\ call'[c].caught = call[c].caught
  <2>1. "applied" \in CallState
    BY DEF CallState
  <2>2. QED
    BY <1>1, <2>1, GoesFields
<1>6. TypeOK'
  BY <1>1, <1>3, <1>4, <1>5 DEF TypeOK, OthersStay, storeVars, poolVars
<1>7. CallsAreGiven'
  <2>1. ASSUME NEW d \in Call \ {c} PROVE CallIsGiven(d)'
    BY <1>1, <1>4, <1>5, SameIsGiven DEF OthersStay
  <2>2. call[c].conn <= db'.made
    <3>1. call[c].conn \in Nat /\ db.made \in Nat /\ db'.made \in Nat
      BY <1>1, <1>4 DEF TypeOK, CallRecord, Database, Conn, NoConn
    <3>2. QED
      BY <1>1, <1>4, <3>1 DEF CallIsGiven
  <2>3. CallIsGiven(c)'
    BY <1>1, <1>3, <1>5, <2>2 DEF CallIsGiven, Fresh, Connected, Within, Applied, Lite, Over
  <2>4. QED
    BY <2>1, <2>3 DEF CallsAreGiven
<1>8. StoreIsKept'
  <2>1. StoreIsKept
    BY DEF Types
  <2>2. /\ \A o \in db'.open : o <= db'.made
        /\ entry <= db'.made /\ \A o \in Handle : promise[o] <= db'.made
    BY <1>1, <1>4, <2>1, NumbersGrow
  <2>3. QED
    BY <1>1, <2>1, <2>2 DEF StoreIsKept, Lite, File, storeVars, poolVars
<1>9. Calm
  <2>1. Progresses(c)
    BY <1>1, <1>5 DEF Progresses, Applied
  <2>2. QED
    BY <1>1, <1>4, <1>5, <2>1, StillCloses, SameProgresses DEF Calm
<1>10. KeepsConns
  BY <1>1, <1>5 DEF KeepsConns, OthersStay, Connected, Within, Applied
<1>11. QED
  BY <1>1, <1>2, <1>3, <1>5, <1>6, <1>7, <1>8, <1>9, <1>10 DEF Types

(* testConnection. *)
LEMMA TestStartsStep ==
    ASSUME Types, NEW c \in Call, TestStarts(c)
    PROVE  /\ Types' /\ Calm /\ KeepsConns /\ OthersStay(c) /\ db' = db /\ call[c].st = "none"
           /\ call'[c].kind = "test"
           /\ \/ Lite /\ Found # Pending /\ call'[c].st = "ready" /\ call'[c].conn = Found
              \/ ~(Lite /\ Found # Pending) /\ call'[c].st = "waiting" /\ call'[c].conn = NoConn
<1>1. /\ TypeOK /\ CallIsGiven(c) /\ call[c] \in CallRecord /\ call[c].st = "none"
      /\ db' = db /\ UNCHANGED <<dialect, entry, raced, promise, field, destroyed, poolVars, mixed, late>>
  BY DEF Types, TypeOK, CallsAreGiven, TestStarts, AskBackend
<1> DEFINE ready == Lite /\ Found # Pending
<1>2. ready => File /\ Found = entry /\ entry \in Conn
  BY <1>1 DEF Found, TypeOK
<1>3. PICK n \in Conn \cup {NoConn}, s \in {"ready", "waiting"} :
        /\ n = IF ready THEN Found ELSE NoConn
        /\ s = IF ready THEN "ready" ELSE "waiting"
  BY <1>2
<1> DEFINE r == [call[c] EXCEPT !.kind = "test", !.st = s, !.conn = n]
<1>4. call' = [call EXCEPT ![c] = r]
  BY <1>3 DEF TestStarts
<1>5. /\ r \in CallRecord /\ r.st = s /\ r.kind = "test" /\ r.on = NoHandle
      /\ r.conn = n /\ r.finished = call[c].finished
  BY <1>1 DEF CallRecord, CallState, Kind, CallIsGiven
<1> HIDE DEF r
<1>6. OthersStay(c) /\ call'[c] = r
  BY <1>1, <1>4, <1>5, CallFields DEF OthersStay, TypeOK
<1>7. \/ ~Lite /\ entryRefs' = entryRefs /\ opening' = opening
      \/ Lite /\ ~ready /\ entryRefs' = entryRefs /\ opening' = opening \cup {c}
      \/ ready /\ entryRefs' = entryRefs + 1 /\ opening' = opening
  BY DEF TestStarts, AskBackend
<1>8. TypeOK'
  <2>1. entryRefs' \in Nat /\ opening' \subseteq Handle \cup Call
    BY <1>1, <1>7 DEF TypeOK
  <2>2. QED
    BY <1>1, <1>6, <2>1 DEF TypeOK, OthersStay, poolVars
<1>9. CallsAreGiven'
  <2>1. db' \in Database /\ db'.made >= db.made /\ db.made \in Nat
    BY <1>1 DEF TypeOK, Database
  <2>2. ASSUME NEW d \in Call \ {c} PROVE CallIsGiven(d)'
    BY <1>1, <1>6, <2>1, SameIsGiven DEF OthersStay
  <2>3. n <= db.made /\ (ready => n # NoConn)
    BY <1>2, <1>3, <2>1 DEF Types, StoreIsKept, NoConn, Conn
  <2>4. CallIsGiven(c)'
    BY <1>1, <1>3, <1>5, <1>6, <2>3 DEF CallIsGiven, Fresh, Connected, Within, Applied, Lite, Over
  <2>5. QED
    BY <2>2, <2>4 DEF CallsAreGiven
<1>10. StoreIsKept'
  <2>1. StoreIsKept /\ c \notin Handle /\ entryRefs \in Nat
    BY ConnectionAssumption DEF Types, TypeOK, ConnectionAssumption
  <2>2. \A h \in opening' \cap Handle : promise'[h] = Pending
    BY <1>1, <1>7, <2>1 DEF StoreIsKept
  <2>3. /\ entry' = NoConn => entryRefs' = 0
        /\ entry' # NoConn => entryRefs' > 0
    BY <1>1, <1>2, <1>7, <2>1 DEF StoreIsKept, Conn, NoConn
  <2>4. QED
    BY <1>1, <1>7, <2>1, <2>2, <2>3 DEF StoreIsKept, Lite, File, poolVars
<1>11. Calm
  <2>1. Progresses(c)
    BY <1>1, <1>3, <1>5, <1>6 DEF Progresses, Fresh
  <2>2. QED
    BY <1>1, <1>6, <2>1, StillCloses, SameProgresses DEF Calm
<1>12. KeepsConns
  BY <1>3, <1>5, <1>6 DEF KeepsConns, OthersStay, Connected, Within
<1>13. QED
  BY <1>1, <1>3, <1>5, <1>6, <1>8, <1>9, <1>10, <1>11, <1>12 DEF Types

LEMMA TestConnectsStep ==
    ASSUME Types, NEW c \in Call, TestConnects(c)
    PROVE  /\ Types' /\ Calm /\ KeepsConns /\ OthersStay(c)
           /\ call[c].st = "waiting" /\ call[c].kind = "test" /\ call'[c].kind = "test"
           /\ \/ /\ db' = Opened(db, <<NoHandle, 0>>) /\ Opens
                 /\ db'.home = [db.home EXCEPT ![db.made + 1] = <<NoHandle, 0>>]
                 /\ IF Lite THEN BackendOpens(c) ELSE UNCHANGED <<entry, entryRefs, opening, raced>>
                 /\ call'[c].st = "ready" /\ call'[c].conn = db'.made
              \/ /\ db' = db /\ UNCHANGED <<entry, entryRefs, raced>> /\ call'[c].st = "failed"
<1>1. /\ TypeOK /\ CallIsGiven(c) /\ call[c] \in CallRecord
      /\ call[c].st = "waiting" /\ call[c].kind = "test"
      /\ UNCHANGED <<dialect, promise, field, destroyed, poolVars, mixed, late>>
  BY DEF Types, TypeOK, CallsAreGiven, TestConnects
<1>2. c \notin Handle /\ StoreIsKept
  BY ConnectionAssumption DEF ConnectionAssumption, Types
<1>3. CASE /\ IF Lite THEN BackendOpens(c)
                      ELSE /\ db.made < MaxConns
                           /\ db' = Opened(db, <<NoHandle, 0>>)
                           /\ UNCHANGED <<entry, entryRefs, opening, raced>>
           /\ call' = [call EXCEPT ![c] = [@ EXCEPT !.st = "ready", !.conn = db'.made]]
  <2>1. db.made < MaxConns /\ db' = Opened(db, <<NoHandle, 0>>) /\ <<NoHandle, 0>> \in Instance
    BY <1>3 DEF BackendOpens, Instance
  <2>2. /\ db' \in Database /\ Opens /\ db'.home = [db.home EXCEPT ![db.made + 1] = <<NoHandle, 0>>]
        /\ db'.made \in Nat /\ db.made \in Nat
    BY <1>1, <2>1, OpenStep
  <2>3. PICK n \in Conn : n = db'.made
    BY <2>2 DEF Opens
  <2> DEFINE r == [call[c] EXCEPT !.st = "ready", !.conn = n]
  <2>4. /\ r \in CallRecord /\ r.st = "ready" /\ r.conn = n /\ r.kind = "test"
        /\ r.on = call[c].on /\ r.finished = call[c].finished
    BY <1>1 DEF CallRecord, CallState
  <2>5. call' = [call EXCEPT ![c] = r]
    BY <1>3, <2>3
  <2> HIDE DEF r
  <2>6. OthersStay(c) /\ call'[c] = r
    BY <1>1, <2>4, <2>5, CallFields DEF OthersStay, TypeOK
  <2>7. /\ entry' = (IF File THEN n ELSE entry) /\ entryRefs' = (IF File THEN 1 ELSE entryRefs)
        /\ opening' \in {opening, opening \ {c}} /\ raced' \in BOOLEAN
    <3>1. CASE Lite
      BY <1>3, <2>3, <3>1 DEF BackendOpens
    <3>2. CASE ~Lite
      BY <1>1, <1>3, <3>2 DEF Lite, File, TypeOK
    <3>3. QED
      BY <3>1, <3>2
  <2>8. TypeOK'
    <3>1. entry' \in Conn \cup {NoConn} /\ entryRefs' \in Nat /\ opening' \subseteq Handle \cup Call
      BY <1>1, <2>7 DEF TypeOK
    <3>2. QED
      BY <1>1, <2>2, <2>6, <2>7, <3>1 DEF TypeOK, OthersStay, poolVars
  <2>9. CallsAreGiven'
    <3>1. ASSUME NEW d \in Call \ {c} PROVE CallIsGiven(d)'
      BY <1>1, <2>2, <2>6, SameIsGiven DEF OthersStay, Opens
    <3>2. n # NoConn
      BY DEF Conn, NoConn
    <3>3. CallIsGiven(c)'
      BY <1>1, <2>2, <2>3, <2>4, <2>6, <3>2 DEF CallIsGiven, Fresh, Connected, Within, Applied, Lite, Over
    <3>4. QED
      BY <3>1, <3>3 DEF CallsAreGiven
  <2>10. StoreIsKept'
    <3>1. /\ \A b \in db'.open : b <= db'.made
          /\ entry <= db'.made
          /\ \A h \in Handle : promise[h] <= db'.made
      BY <1>1, <1>2, <2>2, NumbersGrow
    <3>2. n # NoConn
      BY DEF Conn, NoConn
    <3>3. QED
      BY <1>1, <1>2, <2>2, <2>3, <2>7, <3>1, <3>2 DEF StoreIsKept, Lite, File, poolVars
  <2>11. Calm
    <3>1. Progresses(c)
      BY <1>1, <2>4, <2>6 DEF Progresses, Fresh
    <3>2. QED
      BY <1>1, <2>2, <2>6, <3>1, SameProgresses DEF Calm
  <2>12. KeepsConns
    BY <2>4, <2>6 DEF KeepsConns, OthersStay, Connected, Within
  <2>13. QED
    BY <1>1, <1>3, <2>1, <2>2, <2>3, <2>4, <2>6, <2>8, <2>9, <2>10, <2>11, <2>12 DEF Types
<1>4. CASE /\ IF Lite THEN BackendFails(c) ELSE UNCHANGED <<db, entry, entryRefs, opening, raced>>
           /\ Ends(c, "failed")
  <2>1. db' = db /\ UNCHANGED <<entry, entryRefs, raced>> /\ opening' \in {opening, opening \ {c}}
    BY <1>4 DEF BackendFails
  <2>2. /\ OthersStay(c) /\ call'[c].st = "failed" /\ call'[c].kind = "test"
        /\ call'[c].on = NoHandle /\ call'[c].conn = NoConn
        /\ call'[c].finished = call[c].finished
    <3>1. "failed" \in CallState
      BY DEF CallState
    <3>2. QED
      BY <1>1, <1>4, <3>1, EndsFields
  <2>3. TypeOK'
    <3>1. opening' \subseteq Handle \cup Call
      BY <1>1, <2>1 DEF TypeOK
    <3>2. QED
      BY <1>1, <2>1, <2>2, <3>1 DEF TypeOK, OthersStay, poolVars
  <2>4. CallsAreGiven'
    <3>1. db' \in Database /\ db'.made >= db.made /\ db.made \in Nat
      BY <1>1, <2>1 DEF TypeOK, Database
    <3>2. ASSUME NEW d \in Call \ {c} PROVE CallIsGiven(d)'
      BY <1>1, <2>2, <3>1, SameIsGiven DEF OthersStay
    <3>3. CallIsGiven(c)'
      BY <2>1, <2>2, <3>1 DEF CallIsGiven, Fresh, Connected, Within, Applied, Over, NoConn
    <3>4. QED
      BY <3>2, <3>3 DEF CallsAreGiven
  <2>5. StoreIsKept'
    BY <1>1, <1>2, <2>1 DEF StoreIsKept, Lite, File, poolVars
  <2>6. Calm
    <3>1. Progresses(c)
      BY <1>1, <2>2 DEF Progresses, Fresh
    <3>2. QED
      BY <1>1, <2>1, <2>2, <3>1, StillCloses, SameProgresses DEF Calm
  <2>7. KeepsConns
    BY <2>2 DEF KeepsConns, OthersStay, Connected, Within
  <2>8. QED
    BY <1>1, <2>1, <2>2, <2>3, <2>4, <2>5, <2>6, <2>7 DEF Types
<1>5. QED
  BY <1>3, <1>4 DEF TestConnects

(* releaseSqliteBackend closes the backend of the record at the last one.  *)
LEMMA ReleaseStep ==
    ASSUME Types, ReleaseBackend
    PROVE  /\ db' \in Database /\ Closes /\ db'.home = db.home /\ db'.made = db.made
           /\ db'.open \subseteq db.open
           /\ entry' \in {entry, NoConn} /\ entryRefs' \in Nat
           /\ entry' = NoConn => entryRefs' = 0
           /\ entry' # NoConn => entryRefs' > 0
           /\ entry # NoConn /\ entryRefs > 1 =>
                db' = db /\ entry' = entry /\ entryRefs' = entryRefs - 1
           /\ entry # NoConn /\ entryRefs <= 1 =>
                db'.open = db.open \ {entry} /\ entry' = NoConn /\ entryRefs' = 0
<1>1. TypeOK /\ StoreIsKept /\ db \in Database /\ entryRefs \in Nat /\ entry \in Conn \cup {NoConn}
  BY DEF Types, TypeOK
<1>2. CASE entry # NoConn /\ entryRefs <= 1
  <2>1. db' = Close(db, entry) /\ entry \in Conn /\ entry' = NoConn /\ entryRefs' = entryRefs - 1
    BY <1>1, <1>2 DEF ReleaseBackend
  <2>2. /\ db' \in Database /\ Closes /\ db'.home = db.home /\ db'.made = db.made
        /\ db'.open = db.open \ {entry}
    BY <1>1, <2>1, CloseStep
  <2>3. entryRefs = 1
    BY <1>1, <1>2 DEF StoreIsKept
  <2>4. QED
    BY <1>2, <2>1, <2>2, <2>3
<1>3. CASE ~(entry # NoConn /\ entryRefs <= 1)
  <2>1. db' = db /\ entry' = entry
    BY <1>1, <1>3 DEF ReleaseBackend
  <2>2. entryRefs' = IF entry = NoConn THEN 0 ELSE entryRefs - 1
    BY DEF ReleaseBackend
  <2>3. Closes
    BY <1>1, <2>1, StillCloses
  <2>4. QED
    BY <1>1, <1>3, <2>1, <2>2, <2>3
<1>4. QED
  BY <1>2, <1>3

LEMMA TestEndsStep ==
    ASSUME Types, NEW c \in Call, TestEnds(c)
    PROVE  /\ Types' /\ Calm /\ KeepsConns /\ OthersStay(c)
           /\ call[c].st = "ready" /\ call[c].kind = "test" /\ call[c].conn \in Conn
           /\ call'[c].st \in {"answered", "failed"}
           /\ \/ File /\ call[c].conn \in db.open /\ ReleaseBackend
              \/ File /\ call[c].conn \notin db.open /\ UNCHANGED <<db, entry, entryRefs>>
              \/ ~File /\ db'.open = db.open \ {call[c].conn} /\ UNCHANGED <<entry, entryRefs>>
           /\ db'.home = db.home
<1>1. /\ TypeOK /\ CallIsGiven(c) /\ StoreIsKept /\ call[c] \in CallRecord /\ db.made \in Nat
      /\ call[c].st = "ready" /\ call[c].kind = "test"
      /\ UNCHANGED <<dialect, opening, promise, field, raced, destroyed, poolVars, mixed, late>>
  BY DEF Types, TypeOK, CallsAreGiven, TestEnds, Database
<1>2. call[c].conn \in Conn
  BY <1>1 DEF CallIsGiven, CallRecord
<1>3. PICK s \in {"answered", "failed"} : Ends(c, s)
  BY DEF TestEnds
<1>4. /\ OthersStay(c) /\ call'[c].st = s /\ call'[c].kind = "test"
      /\ call'[c].on = NoHandle /\ call'[c].conn = NoConn
      /\ call'[c].finished = call[c].finished
  <2>1. s \in CallState
    BY DEF CallState
  <2>2. QED
    BY <1>1, <1>3, <2>1, EndsFields
<1>5. /\ db' \in Database /\ Closes /\ db'.home = db.home /\ db'.made = db.made
      /\ db'.open \subseteq db.open
      /\ entry' \in {entry, NoConn} /\ entryRefs' \in Nat
      /\ entry' = NoConn => entryRefs' = 0
      /\ entry' # NoConn => entryRefs' > 0
      /\ \/ File /\ call[c].conn \in db.open /\ ReleaseBackend
         \/ File /\ call[c].conn \notin db.open /\ UNCHANGED <<db, entry, entryRefs>>
         \/ ~File /\ db'.open = db.open \ {call[c].conn} /\ UNCHANGED <<entry, entryRefs>>
  <2>1. CASE File /\ call[c].conn \in db.open
    <3>1. ReleaseBackend
      BY <2>1 DEF TestEnds
    <3>2. QED
      BY <2>1, <3>1, ReleaseStep
  <2>2. CASE File /\ call[c].conn \notin db.open
    <3>1. UNCHANGED <<db, entry, entryRefs>>
      BY <2>2 DEF TestEnds
    <3>2. QED
      BY <1>1, <2>2, <3>1, StillCloses DEF TypeOK, StoreIsKept
  <2>3. CASE ~File
    <3>1. db' = Close(db, call[c].conn) /\ UNCHANGED <<entry, entryRefs>>
      BY <2>3 DEF TestEnds
    <3>2. /\ db' \in Database /\ Closes /\ db'.home = db.home /\ db'.made = db.made
          /\ db'.open = db.open \ {call[c].conn}
      BY <1>1, <1>2, <3>1, CloseStep
    <3>3. QED
      BY <1>1, <2>3, <3>1, <3>2 DEF TypeOK, StoreIsKept
  <2>4. QED
    BY <2>1, <2>2, <2>3
<1>6. TypeOK'
  BY <1>1, <1>4, <1>5 DEF TypeOK, OthersStay, poolVars
<1>7. CallsAreGiven'
  <2>1. ASSUME NEW d \in Call \ {c} PROVE CallIsGiven(d)'
    BY <1>1, <1>4, <1>5, SameIsGiven DEF OthersStay
  <2>2. CallIsGiven(c)'
    BY <1>1, <1>4, <1>5 DEF CallIsGiven, Fresh, Connected, Within, Applied, Over, NoConn
  <2>3. QED
    BY <2>1, <2>2 DEF CallsAreGiven
<1>8. StoreIsKept'
  BY <1>1, <1>5 DEF StoreIsKept, Lite, File, poolVars, NoConn
<1>9. Calm
  <2>1. Progresses(c)
    BY <1>1, <1>4 DEF Progresses, Fresh
  <2>2. QED
    BY <1>1, <1>4, <1>5, <2>1, SameProgresses DEF Calm
<1>10. KeepsConns
  BY <1>4 DEF KeepsConns, OthersStay, Connected, Within
<1>11. QED
  BY <1>1, <1>2, <1>4, <1>5, <1>6, <1>7, <1>8, <1>9, <1>10 DEF Types

LEMMA DestroyStep ==
    ASSUME Types, HandlesAgree, NEW h \in Handle, Destroy(h)
    PROVE  /\ Types' /\ Calm /\ KeepsConns /\ call' = call /\ late' = late
           /\ db'.home = db.home /\ db'.made = db.made /\ db'.open \subseteq db.open
           /\ Lite => DestroyStoreHandle(h) /\ UNCHANGED poolVars
           /\ Lite /\ ~File /\ field[h] # NoConn => db'.open = db.open \ {field[h]}
           /\ ~Lite => DestroyPoolHandle(h) /\ db' = db
<1>1. TypeOK /\ StoreIsKept /\ db \in Database /\ db.made \in Nat
      /\ UNCHANGED <<dialect, call, mixed, late>>
  BY DEF Types, TypeOK, Destroy, Database
<1>2. CASE Lite
  <2>1. DestroyStoreHandle(h) /\ UNCHANGED poolVars /\ UNCHANGED <<opening, raced>>
        /\ destroyed' = destroyed \cup {h}
    BY <1>2 DEF Destroy, DestroyStoreHandle
  <2>2. /\ field' = [field EXCEPT ![h] = NoConn]
        /\ promise' \in {promise, [promise EXCEPT ![h] = NoConn]}
        /\ promise' # promise => field[h] # NoConn
    BY <2>1 DEF DestroyStoreHandle
  <2>3. /\ db' \in Database /\ Closes /\ db'.home = db.home /\ db'.made = db.made
        /\ db'.open \subseteq db.open
        /\ entry' \in {entry, NoConn} /\ entryRefs' \in Nat
        /\ entry' = NoConn => entryRefs' = 0
        /\ entry' # NoConn => entryRefs' > 0
        /\ ~File /\ field[h] # NoConn => db'.open = db.open \ {field[h]}
    <3>1. CASE field[h] = NoConn
      <4>1. UNCHANGED <<db, entry, entryRefs>>
        BY <2>1, <3>1 DEF DestroyStoreHandle
      <4>2. QED
        BY <1>1, <3>1, <4>1, StillCloses DEF TypeOK, StoreIsKept
    <3>2. CASE field[h] # NoConn /\ File
      <4>1. ReleaseBackend
        BY <2>1, <3>2 DEF DestroyStoreHandle
      <4>2. QED
        BY <3>2, <4>1, ReleaseStep
    <3>3. CASE field[h] # NoConn /\ ~File
      <4>1. db' = Close(db, field[h]) /\ UNCHANGED <<entry, entryRefs>>
        BY <2>1, <3>3 DEF DestroyStoreHandle
      <4>2. field[h] \in Conn
        BY <1>1, <3>3 DEF TypeOK
      <4>3. /\ db' \in Database /\ Closes /\ db'.home = db.home /\ db'.made = db.made
            /\ db'.open = db.open \ {field[h]}
        BY <1>1, <4>1, <4>2, CloseStep
      <4>4. QED
        BY <1>1, <3>3, <4>1, <4>3 DEF TypeOK, StoreIsKept
    <3>4. QED
      BY <3>1, <3>2, <3>3
  <2>4. TypeOK'
    <3>1. /\ field' \in [Handle -> Conn \cup {NoConn}] /\ destroyed' \subseteq Handle
          /\ promise' \in [Handle -> Conn \cup {NoConn, Pending, Rejected}]
      BY <1>1, <2>1, <2>2 DEF TypeOK
    <3>2. QED
      BY <1>1, <2>1, <2>3, <3>1 DEF TypeOK, poolVars
  <2>5. CallsAreGiven'
    BY <1>1, <2>3, SameIsGiven DEF CallsAreGiven
  <2>6. StoreIsKept'
    <3>1. field[h] # NoConn => h \notin opening
      <4>1. h \notin destroyed
        BY <2>1 DEF DestroyStoreHandle
      <4>2. field[h] # NoConn => promise[h] = field[h] /\ field[h] \in Conn
        BY <1>1, <4>1 DEF HandlesAgree, TypeOK
      <4>3. QED
        BY <1>1, <4>2 DEF StoreIsKept, Pending, Conn
    <3>2. \A g \in Handle : \/ promise'[g] = promise[g]
                            \/ g \notin opening /\ promise'[g] = NoConn
      BY <1>1, <2>2, <3>1 DEF TypeOK
    <3>3. QED
      BY <1>1, <1>2, <2>1, <2>3, <3>2 DEF StoreIsKept, Lite, File, poolVars, NoConn
  <2>7. Calm
    BY <1>1, <2>3 DEF Calm, Progresses
  <2>8. KeepsConns
    BY <1>1 DEF KeepsConns
  <2>9. QED
    BY <1>1, <1>2, <2>1, <2>3, <2>4, <2>5, <2>6, <2>7, <2>8 DEF Types
<1>3. CASE ~Lite
  <2>1. /\ DestroyPoolHandle(h) /\ UNCHANGED storeVars /\ db' = db
        /\ destroyed' = destroyed \cup {h} /\ dying' = [dying EXCEPT ![h] = inst[h]]
        /\ UNCHANGED <<inst, gens, caps>>
    BY <1>3 DEF Destroy, DestroyPoolHandle
  <2>2. TypeOK'
    <3>1. dying' \in [Handle -> 0 .. MaxInstances] /\ destroyed' \subseteq Handle
      BY <1>1, <2>1 DEF TypeOK
    <3>2. QED
      BY <1>1, <2>1, <3>1 DEF TypeOK, storeVars
  <2>3. CallsAreGiven'
    BY <1>1, <2>1, SameIsGiven DEF CallsAreGiven
  <2>4. StoreIsKept'
    <3>1. \A g \in Handle : dying'[g] # 0 => g \in destroyed'
      BY <1>1, <2>1 DEF StoreIsKept, TypeOK
    <3>2. QED
      BY <1>1, <2>1, <3>1 DEF StoreIsKept, Lite, File, storeVars
  <2>5. Calm
    BY <1>1, <2>1, StillCloses DEF Calm, Progresses
  <2>6. KeepsConns
    BY <1>1 DEF KeepsConns
  <2>7. QED
    BY <1>1, <1>3, <2>1, <2>2, <2>3, <2>4, <2>5, <2>6 DEF Types
<1>4. QED
  BY <1>2, <1>3

LEMMA DestroyEndsStep ==
    ASSUME Types, NEW h \in Handle, DestroyEnds(h)
    PROVE  /\ Types' /\ Calm /\ KeepsConns /\ call' = call /\ late' = late /\ ~Lite
           /\ db'.home = db.home /\ db'.made = db.made
           /\ db'.open = db.open \ ConnsOf(h, inst[h])
           /\ dying[h] # 0 /\ inst[h] = dying[h] /\ inst' = [inst EXCEPT ![h] = 0]
           /\ UNCHANGED <<storeVars, destroyed, gens, dying, caps>>
<1>1. /\ TypeOK /\ StoreIsKept /\ db \in Database /\ db.made \in Nat /\ ~Lite
      /\ UNCHANGED <<dialect, storeVars, destroyed, call, mixed, late, gens, dying, caps>>
      /\ dying[h] # 0 /\ inst[h] = dying[h] /\ inst' = [inst EXCEPT ![h] = 0]
      /\ db' = CloseAll(db, ConnsOf(h, inst[h]))
  BY DEF Types, TypeOK, DestroyEnds, InstanceCloses, Database
<1>2. /\ db' \in Database /\ Closes /\ db'.home = db.home /\ db'.made = db.made
      /\ db'.open = db.open \ ConnsOf(h, inst[h])
  <2>1. ConnsOf(h, inst[h]) \in SUBSET Conn
    BY <1>1 DEF ConnsOf, Database
  <2>2. QED
    BY <1>1, <2>1, CloseAllStep
<1>3. TypeOK'
  <2>1. inst' \in [Handle -> 0 .. MaxInstances]
    BY <1>1, PoolAssumption DEF TypeOK, PoolAssumption
  <2>2. QED
    BY <1>1, <1>2, <2>1 DEF TypeOK, storeVars
<1>4. CallsAreGiven'
  BY <1>1, <1>2, SameIsGiven DEF CallsAreGiven
<1>5. StoreIsKept'
  BY <1>1, <1>2 DEF StoreIsKept, Lite, File, storeVars
<1>6. Calm
  BY <1>1, <1>2 DEF Calm, Progresses
<1>7. KeepsConns
  BY <1>1 DEF KeepsConns
<1>8. QED
  BY <1>1, <1>2, <1>3, <1>4, <1>5, <1>6, <1>7 DEF Types

-----------------------------------------------------------------------------
(* Who has a connection, and who a transaction on it.                      *)

LEMMA SameKinds ==
    ASSUME CallsAreGiven, Calm, NoControls'
    PROVE  NoControls
<1>1. ASSUME NEW c \in Call, call[c].kind = "control" PROVE FALSE
  <2>1. CallIsGiven(c) /\ Progresses(c) /\ call'[c].kind # "control"
    BY DEF CallsAreGiven, Calm, NoControls
  <2>2. QED
    BY <1>1, <2>1 DEF CallIsGiven, Progresses
<1>2. QED
  BY <1>1 DEF NoControls

LEMMA ConnectionsStayHeld ==
    ASSUME ConnectionsAreHeldOnce, KeepsConns, dialect' = dialect
    PROVE  ConnectionsAreHeldOnce'
BY DEF ConnectionsAreHeldOnce, KeepsConns, Lite

(* Calm steps begin no transaction. *)
LEMMA CalmOwners ==
    ASSUME Types, TransactionsAreOwned, Calm
    PROVE  TransactionsAreOwned'
<1>1. /\ db \in Database /\ CallsAreGiven /\ dialect' = dialect
      /\ \A c \in Call : Progresses(c) /\ CallIsGiven(c) /\ c # NoCall
  BY ConnectionAssumption DEF Types, TypeOK, Calm, CallsAreGiven, ConnectionAssumption
<1>2. /\ db'.aborted \subseteq db.aborted
      /\ \A b \in Conn : /\ db'.txOf[b] \in {NoCall, db.txOf[b]}
                         /\ b \notin db'.open => db'.txOf[b] = NoCall
                         /\ db'.txOf[b] = NoCall => db'.dirty[b] = {}
  <2>1. CASE Opens
    BY <2>1 DEF Opens, TransactionsAreOwned
  <2>2. CASE Closes
    BY <2>2 DEF Closes, TransactionsAreOwned
  <2>3. QED
    BY <2>1, <2>2 DEF Calm
<1>3. ASSUME NEW b \in Conn, NEW c \in Call, db'.txOf[b] = c
      PROVE  \/ call'[c].kind = "control"
             \/ call'[c].st \in Within /\ call'[c].conn = b /\ call'[c].finished = "no"
  <2>1. \/ call[c].kind = "control"
        \/ call[c].st \in Within /\ call[c].conn = b /\ call[c].finished = "no"
    BY <1>1, <1>2, <1>3 DEF TransactionsAreOwned
  <2>2. Progresses(c) /\ CallIsGiven(c)
    BY <1>1
  <2>3. QED
    BY <2>1, <2>2 DEF Progresses, CallIsGiven, Within, Fresh, Applied
<1>4. QED
  BY <1>1, <1>2, <1>3 DEF TransactionsAreOwned

(* A connection that is acquired is held by no other call. *)
LEMMA AcquiresHolds ==
    ASSUME Types, ConnectionsAreHeldOnce, NEW c \in Call, Acquires(c)
    PROVE  ConnectionsAreHeldOnce'
<1>1. /\ OthersStay(c) /\ ~Lite /\ dialect' = dialect /\ call[c].on \in Handle /\ call[c].gen \in Nat
      /\ call'[c].conn \in Conn
      /\ CanAcquire(call[c].on, call[c].gen, call'[c].conn, Held)
  BY AcquiresStep DEF Calm
<1>2. ASSUME NEW d \in Call \ {c}, call[d].st \in Connected PROVE call[d].conn # call'[c].conn
  <2>1. call[d].conn \in Held
    BY <1>2 DEF Held, Connected, Within
  <2>2. call[d].conn <= db.made /\ db.made \in Nat
    BY DEF Types, CallsAreGiven, CallIsGiven, TypeOK, Database
  <2>3. CASE call'[c].conn \notin Held
    BY <2>1, <2>3
  <2>4. CASE call'[c].conn = db.made + 1
    BY <2>2, <2>4
  <2>5. QED
    BY <1>1, <2>3, <2>4 DEF CanAcquire
<1>3. QED
  BY <1>1, <1>2 DEF ConnectionsAreHeldOnce, OthersStay, Lite

(* A statement of call c changes transactions on its connection only. *)
TransactionsOf(c, b) ==
    /\ InPlace(c) /\ b \in Conn /\ b = call[c].conn /\ mixed' \in {mixed, mixed \cup Mixing(c, b)}
    /\ ~Lite => call[c].st \in Connected
    /\ call'[c].st \in Connected => call'[c].conn = b
    /\ \A o \in Conn \ {b} : db'.txOf[o] = db.txOf[o] /\ db'.dirty[o] = db.dirty[o]
    /\ db'.txOf[b] \in {NoCall, c, db.txOf[b]}
    /\ db'.txOf[b] = NoCall => db'.dirty[b] = {}
    /\ b \notin db.open => db'.txOf[b] = NoCall
    /\ db'.aborted # {} => dialect = "postgresql"
    /\ \A o \in Conn : db'.txOf[o] = c =>
          \/ call'[c].kind = "control"
          \/ call'[c].st \in Within /\ call'[c].conn = o /\ call'[c].finished = "no"

LEMMA StatementOwners ==
    ASSUME Types, TransactionsAreOwned, ConnectionsAreHeldOnce, NEW c \in Call, NEW b \in Conn,
           TransactionsOf(c, b)
    PROVE  TransactionsAreOwned' /\ ConnectionsAreHeldOnce'
<1>1. /\ dialect' = dialect /\ OthersStay(c) /\ db'.open = db.open /\ c # NoCall
  BY ConnectionAssumption DEF TransactionsOf, InPlace, InPlaceOf, ConnectionAssumption
<1>2. ASSUME NEW o \in Conn, NEW d \in Call, db'.txOf[o] = d
      PROVE  \/ call'[d].kind = "control"
             \/ call'[d].st \in Within /\ call'[d].conn = o /\ call'[d].finished = "no"
  <2>1. CASE d = c
    BY <1>2, <2>1 DEF TransactionsOf
  <2>2. CASE d # c
    <3>1. db.txOf[o] = d /\ call'[d] = call[d]
      BY <1>1, <1>2, <2>2, ConnectionAssumption DEF TransactionsOf, OthersStay, ConnectionAssumption
    <3>2. QED
      BY <3>1 DEF TransactionsAreOwned
  <2>3. QED
    BY <2>1, <2>2
<1>3. TransactionsAreOwned'
  BY <1>1, <1>2 DEF TransactionsAreOwned, TransactionsOf
<1>4. ConnectionsAreHeldOnce'
  <2>1. ~Lite => KeepsConns
    BY <1>1 DEF TransactionsOf, KeepsConns, OthersStay
  <2>2. QED
    BY <1>1, <2>1, ConnectionsStayHeld DEF ConnectionsAreHeldOnce, Lite
<1>5. QED
  BY <1>3, <1>4

(* On a server the open transaction of a connection is the caller's own,   *)
(* or a control's.                                                         *)
LEMMA NobodyMixes ==
    ASSUME Types, TransactionsAreOwned, ConnectionsAreHeldOnce, NEW c \in Call, NEW b \in Conn,
           TransactionsOf(c, b), ~Lite, NoControls
    PROVE  Mixing(c, b) = {}
<1>1. call[c].st \in Connected /\ call[c].conn = b
  BY DEF TransactionsOf
<1>2. db.txOf[b] \in Call \cup {NoCall}
  BY DEF Types, TypeOK, Database
<1>3. ASSUME NEW d \in Call, db.txOf[b] = d, d # c PROVE FALSE
  <2>1. call[d].st \in Within /\ call[d].conn = b
    BY <1>3 DEF TransactionsAreOwned, NoControls
  <2>2. QED
    BY <1>1, <1>3, <2>1 DEF ConnectionsAreHeldOnce, Connected
<1>4. QED
  BY <1>2, <1>3 DEF Mixing

-----------------------------------------------------------------------------
(* What a statement of call c does to the writes of the others: nothing,   *)
(* unless it ends a transaction of one, who is told in mixed.              *)

Untouched == UNCHANGED <<db.txOf, db.dirty, db.durable, db.written>>

Undisturbed(c, b) ==
    \/ Untouched /\ db'.aborted \subseteq db.aborted \cup {b}
    \/ /\ db'.aborted \subseteq db.aborted
       /\ \A d \in Call \ {c} : db.txOf[b] = d => d \in mixed'
       /\ \A w \in Write : w[1] # c =>
             /\ w \in db'.written <=> w \in db.written
             /\ w \in db'.dirty[b] => w \in db.dirty[b]
             /\ w \in db.durable => w \in db'.durable
             /\ w \in db'.durable => w \in db.durable \/ w \in db.dirty[b]

OutcomeOf(d) ==
    /\ d \notin mixed => WritesAreKept(d)
    /\ call[d].st \in Fresh \/ (call[d].st = "failed" /\ call[d].kind = "import") => Nowhere(d, <<d, 2>>)
    /\ \A b \in db.aborted : db.txOf[b] = d /\ call[d].kind = "transaction" => call[d].caught

LEMMA OutcomesByCall == OutcomesAreTold <=> \A d \in Call : OutcomeOf(d)
BY DEF OutcomesAreTold, OutcomeOf

LEMMA CalmOutcomes ==
    ASSUME Types, TransactionsAreOwned, OutcomesAreTold, Calm
    PROVE  OutcomesAreTold'
<1>1. /\ db \in Database /\ dialect' = dialect /\ mixed' = mixed
      /\ \A d \in Call : CallIsGiven(d) /\ Progresses(d) /\ OutcomeOf(d) /\ d # NoCall
      /\ \A d \in Call : call[d] \in CallRecord
      /\ db.made \in Nat
  BY OutcomesByCall, ConnectionAssumption
     DEF Types, TypeOK, CallsAreGiven, Calm, ConnectionAssumption, Database
<1>2. /\ db'.durable = db.durable /\ db'.written = db.written /\ db'.aborted \subseteq db.aborted
      /\ \A b \in Conn : /\ db'.txOf[b] \in {NoCall, db.txOf[b]}
                         /\ db'.dirty[b] \subseteq db.dirty[b]
      /\ \A b \in Conn : b <= db.made /\ b \in db'.open =>
            /\ b \in db.open
            /\ db'.txOf[b] = db.txOf[b] /\ db'.dirty[b] = db.dirty[b]
      /\ \A b \in Conn : \A w : b \in db.open /\ w \in db'.dirty[b] => b \in db'.open
  <2>1. CASE Opens
    <3>1. \A b \in Conn : b <= db.made => b # db'.made
      BY <1>1, <2>1 DEF Opens, Conn
    <3>2. QED
      BY <2>1, <3>1 DEF Opens
  <2>2. CASE Closes
    BY <2>2 DEF Closes
  <2>3. QED
    BY <2>1, <2>2 DEF Calm
<1>3. ASSUME NEW d \in Call PROVE OutcomeOf(d)'
  <2>1. /\ CallIsGiven(d) /\ Progresses(d) /\ OutcomeOf(d) /\ call[d] \in CallRecord
    BY <1>1
  <2>2. ASSUME NEW w, Nowhere(d, w) PROVE Nowhere(d, w)'
    BY <1>2, <2>2 DEF Nowhere
  <2>3. call'[d].st \in Fresh => call[d].st \in Fresh
    BY <2>1 DEF Progresses, Fresh, Within, Applied
  <2>4. ASSUME d \notin mixed' PROVE WritesAreKept(d)'
    <3>1. WritesAreKept(d)
      BY <1>1, <2>1, <2>4 DEF OutcomeOf
    <3>2. CASE call[d].st \in Fresh /\ call'[d] # call[d]
      <4>1. \A w \in Write : w[1] = d => w \notin db.written /\ Nowhere(d, w)
        BY <3>1, <3>2 DEF WritesAreKept
      <4>2. \A w \in Write : w[1] = d => w \notin db'.written /\ Nowhere(d, w)'
        BY <1>2, <2>2, <4>1
      <4>3. call'[d].st \notin Within /\ call'[d].finished = "no" /\ db'.written \subseteq Write
        BY <1>1, <1>2, <2>1, <3>2 DEF Progresses, CallIsGiven, Fresh, Within, Applied, Database
      <4>4. \A w \in Write : Nowhere(d, w)'
        BY <4>2 DEF Nowhere
      <4>5. QED
        BY <4>2, <4>3, <4>4 DEF WritesAreKept
    <3>3. CASE call[d].st \in Within
      <4>1. /\ call'[d].st \in Within /\ call'[d].kind = call[d].kind /\ call'[d].conn = call[d].conn
            /\ call'[d].finished = call[d].finished /\ call'[d].caught = call[d].caught
        BY <2>1, <3>3 DEF Progresses, Within, Fresh, Applied
      <4>2. call[d].conn \in Conn /\ call[d].conn <= db.made
        BY <2>1, <3>3 DEF CallIsGiven, CallRecord, Connected
      <4>3. \A b \in Conn, w \in Write : w \in db'.dirty[b] => w \in db.dirty[b]
        BY <1>2
      <4>4. QED
        BY <1>1, <1>2, <3>1, <3>3, <4>1, <4>2, <4>3 DEF WritesAreKept, Fresh, Within, Applied
    <3>4. CASE call[d].st \notin Within /\ call'[d] = call[d]
      BY <1>1, <1>2, <2>2, <3>1, <3>4 DEF WritesAreKept
    <3>5. CASE call[d].st \in Applied /\ call'[d] # call[d]
      <4>1. /\ call'[d].st \in Applied \cup {"answered", "failed"} /\ call'[d].kind = "compound"
            /\ call'[d].finished = "no" /\ call'[d].st \notin Fresh \cup Within
        BY <2>1, <3>5 DEF Progresses, CallIsGiven, Fresh, Within, Applied
      <4>2. \A w \in db'.written : w[1] = d => w \in db'.durable
        BY <1>2, <3>1, <3>5 DEF WritesAreKept
      <4>3. QED
        BY <4>1, <4>2 DEF WritesAreKept
    <3>6. QED
      BY <2>1, <3>2, <3>3, <3>4, <3>5 DEF Progresses
  <2>5. ASSUME call'[d].st \in Fresh \/ (call'[d].st = "failed" /\ call'[d].kind = "import")
        PROVE  Nowhere(d, <<d, 2>>)'
    <3>1. call[d].st \in Fresh \/ (call[d].st = "failed" /\ call[d].kind = "import")
      BY <2>1, <2>5 DEF Progresses, CallIsGiven, Fresh, Within, Applied
    <3>2. QED
      BY <2>1, <2>2, <3>1 DEF OutcomeOf
  <2>6. ASSUME NEW b \in db'.aborted, db'.txOf[b] = d, call'[d].kind = "transaction"
        PROVE  call'[d].caught
    <3>1. b \in db.aborted /\ b \in Conn /\ db.txOf[b] = d
      BY <1>1, <1>2, <2>6 DEF Database
    <3>2. \/ call[d].kind = "control"
          \/ call[d].st \in Within
      BY <3>1 DEF TransactionsAreOwned
    <3>3. call'[d].kind = call[d].kind /\ call'[d].caught = call[d].caught
      BY <2>1, <2>6, <3>2 DEF Progresses, CallIsGiven, Within, Fresh, Applied
    <3>4. QED
      BY <2>1, <2>6, <3>1, <3>3 DEF OutcomeOf
  <2>7. QED
    BY <2>4, <2>5, <2>6 DEF OutcomeOf
<1>4. QED
  BY <1>3, OutcomesByCall DEF OutcomesAreTold, OutcomeOf

LEMMA OthersOutcomes ==
    ASSUME Types, TransactionsAreOwned, ConnectionsAreHeldOnce, OutcomesAreTold,
           NEW c \in Call, NEW b \in Conn, TransactionsOf(c, b), Undisturbed(c, b),
           NEW d \in Call \ {c}
    PROVE  OutcomeOf(d)'
<1>1. /\ db \in Database /\ dialect' = dialect /\ db'.open = db.open /\ call'[d] = call[d]
      /\ OutcomeOf(d) /\ CallIsGiven(d) /\ d # NoCall /\ call[d] \in CallRecord
      /\ mixed \subseteq mixed'
  BY OutcomesByCall, ConnectionAssumption
     DEF Types, TypeOK, CallsAreGiven, TransactionsOf, InPlace, InPlaceOf, OthersStay, ConnectionAssumption
<1>2. \A o \in Conn \ {b} : db'.txOf[o] = db.txOf[o] /\ db'.dirty[o] = db.dirty[o]
  BY DEF TransactionsOf
<1>3. /\ d \notin mixed' /\ db.txOf[b] = d => db'.txOf = db.txOf /\ db'.dirty = db.dirty
      /\ \A w \in Write : w[1] = d =>
           /\ w \in db'.written <=> w \in db.written
           /\ \A o \in Conn : w \in db'.dirty[o] => w \in db.dirty[o]
           /\ w \in db.durable => w \in db'.durable
           /\ w \in db'.durable =>
                w \in db.durable \/ (w \in db.dirty[b] /\ (db.txOf[b] = d => d \in mixed'))
  BY <1>2 DEF Undisturbed, Untouched
<1>4. ASSUME NEW w \in Write, Nowhere(d, w) PROVE Nowhere(d, w)'
  BY <1>3, <1>4 DEF Nowhere
<1>5. ASSUME d \notin mixed' PROVE WritesAreKept(d)'
  <2>1. WritesAreKept(d)
    BY <1>1, <1>5 DEF OutcomeOf
  <2> DEFINE s == call[d].conn
  <2>2. CASE call[d].st \in Within /\ call[d].finished = "no"
    <3>1. s \in Conn
      BY <1>1, <2>2 DEF CallIsGiven, CallRecord, Connected
    <3>2. \A w \in Write : w[1] = d => w \notin db'.durable
      BY <1>3, <1>5, <2>1, <2>2 DEF WritesAreKept
    <3>3. \A o \in Conn, w \in Write : w[1] = d /\ w \in db'.dirty[o] => o = s /\ s \in db'.open
      BY <1>1, <1>3, <2>1, <2>2 DEF WritesAreKept
    <3>4. s \in db'.open => db'.txOf[s] = d /\ db'.dirty[s] = db.dirty[s]
      <4>1. CASE s = b
        BY <1>1, <1>3, <1>5, <2>1, <2>2, <4>1 DEF WritesAreKept
      <4>2. CASE s # b
        BY <1>1, <1>2, <2>1, <2>2, <3>1, <4>2 DEF WritesAreKept
      <4>3. QED
        BY <4>1, <4>2
    <3>5. s \in db'.open => \A w \in db'.written : w[1] = d => w \in db'.dirty[s]
      <4>1. db'.written \subseteq Write
        BY DEF TransactionsOf, InPlace, InPlaceOf, Database
      <4>2. QED
        BY <1>1, <1>3, <2>1, <2>2, <3>4, <4>1 DEF WritesAreKept
    <3>6. QED
      BY <1>1, <2>2, <3>2, <3>3, <3>4, <3>5 DEF WritesAreKept, Within, Fresh, Applied
  <2>3. CASE ~(call[d].st \in Within /\ call[d].finished = "no")
    <3>1. db'.written \subseteq Write
      BY DEF TransactionsOf, InPlace, InPlaceOf, Database
    <3>2. call[d].st \in Fresh => \A w \in Write : w[1] = d => w \notin db'.written /\ Nowhere(d, w)'
      BY <1>3, <1>4, <2>1 DEF WritesAreKept
    <3>3. call[d].finished = "commit" \/ (call[d].st = "answered" /\ call[d].finished = "no") =>
            \/ dialect = "postgresql" /\ call[d].caught
            \/ \A w \in db'.written : w[1] = d => w \in db'.durable
      BY <1>3, <2>1, <3>1 DEF WritesAreKept
    <3>4. /\ call[d].st = "failed" /\ call[d].finished = "no" /\ call[d].kind \notin {"import", "compound"}
          => \A w \in Write : Nowhere(d, w)'
      BY <1>4, <2>1 DEF WritesAreKept
    <3>5. call[d].st \in Applied \/ (call[d].st = "failed" /\ call[d].kind = "compound") =>
             \A w \in db'.written : w[1] = d => w \in db'.durable
      BY <1>3, <2>1, <3>1 DEF WritesAreKept
    <3>6. QED
      BY <1>1, <2>3, <3>2, <3>3, <3>4, <3>5 DEF WritesAreKept
  <2>4. QED
    BY <2>2, <2>3
<1>6. call[d].st \in Fresh \/ (call[d].st = "failed" /\ call[d].kind = "import") =>
        Nowhere(d, <<d, 2>>)'
  BY <1>1, <1>4 DEF OutcomeOf, Write
<1>7. ASSUME NEW o \in db'.aborted, db'.txOf[o] = d, call[d].kind = "transaction"
      PROVE  call[d].caught
  <2>1. o \in Conn /\ dialect = "postgresql"
    BY <1>1, <1>7 DEF TransactionsOf, InPlace, InPlaceOf, Database
  <2>2. db.txOf[o] = d
    BY <1>1, <1>2, <1>7, <2>1 DEF TransactionsOf
  <2>3. CASE o \in db.aborted
    BY <1>1, <1>7, <2>2, <2>3 DEF OutcomeOf
  <2>4. CASE o \notin db.aborted
    <3>1. o = b
      BY <1>7, <2>4 DEF Undisturbed
    <3>2. call[d].st \in Within /\ call[d].conn = b
      BY <1>7, <2>1, <2>2, <3>1 DEF TransactionsAreOwned
    <3>3. call[c].st \in Connected /\ call[c].conn = b /\ ~Lite
      BY <2>1 DEF TransactionsOf, Lite
    <3>4. QED
      BY <3>2, <3>3 DEF ConnectionsAreHeldOnce, Connected
  <2>5. QED
    BY <2>3, <2>4
<1>8. QED
  BY <1>1, <1>5, <1>6, <1>7 DEF OutcomeOf

(* The effects of the statements on these parts. *)
LEMMA ExecEffect ==
    ASSUME TypeOK, NEW b \in Conn, NEW w \in Write, db' = Exec(db, b, w)
    PROVE  /\ db'.txOf = db.txOf /\ db'.aborted = db.aborted
           /\ db'.dirty = IF db.txOf[b] = NoCall THEN db.dirty ELSE [db.dirty EXCEPT ![b] = @ \cup {w}]
           /\ db'.durable = IF db.txOf[b] = NoCall THEN db.durable \cup {w} ELSE db.durable
           /\ db'.written = db.written \cup {w}
<1>1. Execs(db, b, w, Exec(db, b, w))
  BY ExecFields DEF TypeOK
<1>2. QED
  BY <1>1 DEF Execs

LEMMA BeginEffect ==
    ASSUME TypeOK, NEW b \in Conn, NEW c \in Call, db' = Begin(db, b, c, dialect)
    PROVE  /\ db'.txOf = [db.txOf EXCEPT ![b] = c] /\ db'.written = db.written
           /\ dialect # "mysql" =>
                db'.aborted = db.aborted /\ db'.dirty = db.dirty /\ db'.durable = db.durable
           /\ dialect = "mysql" =>
                /\ db'.aborted = db.aborted \ {b} /\ db'.dirty = [db.dirty EXCEPT ![b] = {}]
                /\ db'.durable = IF b \in db.aborted THEN db.durable ELSE db.durable \cup db.dirty[b]
<1>1. Begins(db, b, c, dialect, Begin(db, b, c, dialect))
  BY BeginFields DEF TypeOK
<1>2. QED
  BY <1>1 DEF Begins

LEMMA CommitEffect ==
    ASSUME TypeOK, NEW b \in Conn, db' = Commit(db, b)
    PROVE  /\ db'.txOf = [db.txOf EXCEPT ![b] = NoCall] /\ db'.aborted = db.aborted \ {b}
           /\ db'.dirty = [db.dirty EXCEPT ![b] = {}]
           /\ db'.durable = IF b \in db.aborted THEN db.durable ELSE db.durable \cup db.dirty[b]
           /\ db'.written = db.written
BY CommitFields DEF TypeOK

LEMMA RollbackEffect ==
    ASSUME TypeOK, NEW b \in Conn, db' = Rollback(db, b)
    PROVE  /\ db'.txOf = [db.txOf EXCEPT ![b] = NoCall] /\ db'.aborted = db.aborted \ {b}
           /\ db'.dirty = [db.dirty EXCEPT ![b] = {}]
           /\ db'.durable = db.durable /\ db'.written = db.written
BY RollbackFields DEF TypeOK

LEMMA FailEffect ==
    ASSUME TypeOK, NEW b \in Conn, db' = Fail(db, b, dialect)
    PROVE  /\ db'.txOf = db.txOf /\ db'.dirty = db.dirty /\ db'.durable = db.durable
           /\ db'.written = db.written
           /\ db'.aborted = IF dialect = "postgresql" /\ db.txOf[b] # NoCall THEN db.aborted \cup {b}
                                                                             ELSE db.aborted
BY DEF Fail, TypeOK, Database

(* MongoDB runs a transaction again: what the call wrote is undone.        *)
LEMMA RetryEffect ==
    ASSUME TypeOK, NEW c \in Call, NEW b \in Conn, dialect = "mongodb",
           db' = Forgotten(Begin(Rollback(db, b), b, c, dialect), c)
    PROVE  /\ db'.txOf = [db.txOf EXCEPT ![b] = c] /\ db'.dirty = [db.dirty EXCEPT ![b] = {}]
           /\ db'.aborted = db.aborted \ {b} /\ db'.durable = db.durable
           /\ db'.written = {w \in db.written : w[1] # c}
<1>0. db \in Database
  BY DEF TypeOK
<1>1. PICK d \in Database : /\ d = Rollback(db, b)
                            /\ d.txOf = [db.txOf EXCEPT ![b] = NoCall] /\ d.aborted = db.aborted \ {b}
                            /\ d.dirty = [db.dirty EXCEPT ![b] = {}]
                            /\ d.durable = db.durable /\ d.written = db.written
  BY <1>0, RollbackFields
<1>2. PICK e : e = Begin(d, b, c, dialect)
  OBVIOUS
<1>3. Begins(d, b, c, dialect, e)
  BY <1>2, BeginFields
<1>4. /\ e \in Database /\ e.txOf = [d.txOf EXCEPT ![b] = c] /\ e.written = d.written
      /\ e.aborted = d.aborted /\ e.dirty = d.dirty /\ e.durable = d.durable
  BY <1>3 DEF Begins
<1>5. db' = Forgotten(e, c)
  BY <1>1, <1>2
<1>6. /\ db'.txOf = e.txOf /\ db'.aborted = e.aborted /\ db'.dirty = e.dirty
      /\ db'.durable = e.durable /\ db'.written = {w \in e.written : w[1] # c}
  BY <1>4, <1>5, ForgottenFields
<1>7. [d.txOf EXCEPT ![b] = c] = [db.txOf EXCEPT ![b] = c]
  BY <1>0, <1>1 DEF Database
<1>8. QED
  BY <1>1, <1>4, <1>6, <1>7

(* An import that succeeds: the table and its rows are committed, and with *)
(* them whatever was open on the connection.                               *)
Imported(c, b) ==
    \E t, d, e : /\ t = Exec(db, b, <<c, 1>>) /\ d = Begin(t, b, c, dialect)
                 /\ e = Exec(d, b, <<c, 2>>) /\ db' = Commit(e, b)

LEMMA ImportEffect ==
    ASSUME TypeOK, NEW c \in Call, NEW b \in Conn, CanWrite(db, b, dialect), Imported(c, b)
    PROVE  /\ db'.txOf[b] = NoCall /\ db'.dirty[b] = {}
           /\ \A o \in Conn \ {b} : /\ db'.txOf[o] = db.txOf[o] /\ db'.dirty[o] = db.dirty[o]
                                    /\ o \in db'.aborted <=> o \in db.aborted
           /\ db'.aborted \subseteq db.aborted
           /\ \A w : w \in db'.durable <=> w \in db.durable \cup db.dirty[b] \cup {<<c, 1>>, <<c, 2>>}
           /\ db'.written = db.written \cup {<<c, 1>>, <<c, 2>>}
<1>1. PICK t, d, e : /\ t = Exec(db, b, <<c, 1>>) /\ d = Begin(t, b, c, dialect)
                     /\ e = Exec(d, b, <<c, 2>>) /\ db' = Commit(e, b)
  BY DEF Imported
<1>2. db \in Database /\ NoCall \notin Call /\ <<c, 1>> \in Write /\ <<c, 2>> \in Write
  BY ConnectionAssumption DEF TypeOK, ConnectionAssumption, Write
<1>3. /\ t \in Database /\ t.txOf = db.txOf /\ t.aborted = db.aborted
      /\ t.dirty = IF db.txOf[b] = NoCall THEN db.dirty ELSE [db.dirty EXCEPT ![b] = @ \cup {<<c, 1>>}]
      /\ t.durable = IF db.txOf[b] = NoCall THEN db.durable \cup {<<c, 1>>} ELSE db.durable
      /\ t.written = db.written \cup {<<c, 1>>}
  <2>1. Execs(db, b, <<c, 1>>, t)
    BY <1>1, <1>2, ExecFields
  <2>2. QED
    BY <2>1 DEF Execs
<1>4. \A o \in Conn \ {b} : t.dirty[o] = db.dirty[o]
  BY <1>2, <1>3 DEF Database
<1>5. Begins(t, b, c, dialect, d)
  BY <1>1, <1>3, BeginFields
<1>6. b \notin t.aborted
  BY <1>3 DEF CanWrite
<1>7. /\ d \in Database /\ d.txOf = [t.txOf EXCEPT ![b] = c] /\ d.written = t.written
      /\ d.aborted \subseteq t.aborted
      /\ \A o \in Conn \ {b} : d.dirty[o] = t.dirty[o] /\ (o \in d.aborted <=> o \in t.aborted)
      /\ \A w : w \in d.durable \cup d.dirty[b] <=> w \in t.durable \cup t.dirty[b]
  BY <1>3, <1>5, <1>6 DEF Begins, Database
<1>8. d.txOf[b] = c
  BY <1>3, <1>7 DEF Database
<1>9. /\ e \in Database /\ e.txOf = d.txOf /\ e.aborted = d.aborted
      /\ e.dirty = [d.dirty EXCEPT ![b] = @ \cup {<<c, 2>>}]
      /\ e.durable = d.durable /\ e.written = d.written \cup {<<c, 2>>}
  <2>1. Execs(d, b, <<c, 2>>, e)
    BY <1>1, <1>2, <1>7, ExecFields
  <2>2. d.txOf[b] # NoCall
    BY <1>2, <1>8
  <2>3. QED
    BY <2>1, <2>2 DEF Execs
<1>10. e \in Database
  BY <1>9
<1>11. /\ db'.txOf = [e.txOf EXCEPT ![b] = NoCall] /\ db'.aborted = e.aborted \ {b}
       /\ db'.dirty = [e.dirty EXCEPT ![b] = {}]
       /\ db'.durable = IF b \in e.aborted THEN e.durable ELSE e.durable \cup e.dirty[b]
       /\ db'.written = e.written
  BY <1>1, <1>10, CommitFields
<1>12. db'.txOf[b] = NoCall /\ db'.dirty[b] = {} /\ db'.aborted \subseteq db.aborted
  BY <1>3, <1>7, <1>9, <1>11 DEF Database
<1>13. \A o \in Conn \ {b} : /\ db'.txOf[o] = db.txOf[o] /\ db'.dirty[o] = db.dirty[o]
                             /\ o \in db'.aborted <=> o \in db.aborted
  BY <1>2, <1>3, <1>4, <1>7, <1>9, <1>11 DEF Database
<1>14. db'.durable = d.durable \cup d.dirty[b] \cup {<<c, 2>>}
  BY <1>6, <1>7, <1>9, <1>11 DEF Database
<1>15. t.durable \cup t.dirty[b] = db.durable \cup db.dirty[b] \cup {<<c, 1>>}
  BY <1>2, <1>3 DEF Database
<1>16. \A w : w \in db'.durable <=> w \in db.durable \cup db.dirty[b] \cup {<<c, 1>>, <<c, 2>>}
  BY <1>7, <1>14, <1>15
<1>17. db'.written = db.written \cup {<<c, 1>>, <<c, 2>>}
  BY <1>3, <1>7, <1>9, <1>11
<1>18. QED
  BY <1>12, <1>13, <1>16, <1>17

(* What a compound write has done so far, when ws are its writes. *)
Spreads(b, ws) ==
    /\ db'.txOf = db.txOf /\ db'.aborted = db.aborted
    /\ \A w : w \in db'.written <=> w \in db.written \cup ws
    /\ \A o \in Conn \ {b} : db'.dirty[o] = db.dirty[o]
    /\ db.txOf[b] = NoCall => db'.dirty[b] = db.dirty[b] /\ db'.durable = db.durable \cup ws
    /\ db.txOf[b] # NoCall => db'.durable = db.durable /\ \A w \in db'.dirty[b] : w \in db.dirty[b] \cup ws

LEMMA CompoundEffect ==
    ASSUME TypeOK, NEW c \in Call, NEW b \in Conn, NEW t, t = Exec(db, b, <<c, 1>>)
    PROVE  /\ db' = t => Spreads(b, {<<c, 1>>})
           /\ db' = Exec(t, b, <<c, 2>>) => Spreads(b, {<<c, 1>>, <<c, 2>>})
<1>1. db \in Database /\ <<c, 1>> \in Write /\ <<c, 2>> \in Write
  BY DEF TypeOK, Write
<1>2. Execs(db, b, <<c, 1>>, t)
  BY <1>1, ExecFields
<1>3. t \in Database
  BY <1>2 DEF Execs
<1>4. ASSUME db' = t PROVE Spreads(b, {<<c, 1>>})
  BY <1>1, <1>2, <1>4 DEF Execs, Spreads, Database
<1>5. ASSUME db' = Exec(t, b, <<c, 2>>) PROVE Spreads(b, {<<c, 1>>, <<c, 2>>})
  <2>1. Execs(t, b, <<c, 2>>, db')
    BY <1>1, <1>3, <1>5, ExecFields
  <2>2. /\ db'.txOf = db.txOf /\ db'.aborted = db.aborted
        /\ db'.written = db.written \cup {<<c, 1>>} \cup {<<c, 2>>}
    BY <1>2, <2>1 DEF Execs
  <2>3. CASE db.txOf[b] = NoCall
    <3>1. db'.dirty = db.dirty /\ db'.durable = db.durable \cup {<<c, 1>>} \cup {<<c, 2>>}
      BY <1>2, <2>1, <2>3 DEF Execs
    <3>2. QED
      BY <2>2, <2>3, <3>1 DEF Spreads
  <2>4. CASE db.txOf[b] # NoCall
    <3>1. /\ db'.durable = db.durable
          /\ t.dirty = [db.dirty EXCEPT ![b] = @ \cup {<<c, 1>>}]
          /\ db'.dirty = [t.dirty EXCEPT ![b] = @ \cup {<<c, 2>>}]
      BY <1>2, <2>1, <2>4 DEF Execs
    <3>2. /\ \A o \in Conn \ {b} : db'.dirty[o] = db.dirty[o]
          /\ db'.dirty[b] = db.dirty[b] \cup {<<c, 1>>} \cup {<<c, 2>>}
      BY <1>1, <1>3, <3>1 DEF Database
    <3>3. QED
      BY <2>2, <2>4, <3>1, <3>2 DEF Spreads
  <2>5. QED
    BY <2>3, <2>4
<1>6. QED
  BY <1>4, <1>5

LEMMA MixingTouches ==
    ASSUME TypeOK, NEW c \in Call, NEW b \in Conn, mixed' = mixed \cup Mixing(c, b)
    PROVE  /\ \A d \in Call \ {c} : db.txOf[b] = d => d \in mixed'
           /\ c \notin mixed' => db.txOf[b] \in {NoCall, c}
<1>1. db.txOf[b] \in Call \cup {NoCall} /\ NoCall \notin Call
  BY ConnectionAssumption DEF TypeOK, Database, ConnectionAssumption
<1>2. CASE db.txOf[b] \in {NoCall, c}
  BY <1>1, <1>2
<1>3. CASE db.txOf[b] \notin {NoCall, c}
  BY <1>3 DEF Mixing
<1>4. QED
  BY <1>2, <1>3

(* A fresh call owns no transaction, unless it is a control. *)
LEMMA FreshOwnsNone ==
    ASSUME TransactionsAreOwned, NEW c \in Call, NEW b \in Conn, db.txOf[b] = c,
           call[c].st \in Fresh
    PROVE  call[c].kind = "control"
BY DEF TransactionsAreOwned, Fresh, Within

(* Where the connection of an actor is held on a server. *)
LEMMA HasIsConnected ==
    ASSUME NEW c \in Call, HasConnection(c), ~Lite
    PROVE  call[c].st \in Connected
BY DEF HasConnection, Connected

(* From the parts of a statement to the invariants. *)
LEMMA StatementSays ==
    ASSUME Types, Said, NEW c \in Call, NEW b \in Conn, TransactionsOf(c, b), Undisturbed(c, b),
           OutcomeOf(c)'
    PROVE  Said'
<1>1. TransactionsAreOwned' /\ ConnectionsAreHeldOnce'
  BY StatementOwners DEF Said
<1>2. \A d \in Call : OutcomeOf(d)'
  BY OthersOutcomes DEF Said
<1>3. OutcomesAreTold'
  BY <1>2, OutcomesByCall DEF OutcomesAreTold, OutcomeOf
<1>4. QED
  BY <1>1, <1>3 DEF Said

LEMMA WriteSays ==
    ASSUME Types, Said, NEW c \in Call, WriteEnds(c)
    PROVE  Said' /\ TransactionsOf(c, call[c].conn)
<1> DEFINE b == call[c].conn
<1>1. /\ InPlace(c) /\ Types' /\ b \in Conn /\ call[c].st \in Fresh
      /\ call'[c].finished = call[c].finished /\ call'[c].caught = call[c].caught
      /\ <<c, 1>> \in Write
      /\ \/ /\ CanWrite(db, b, dialect) /\ db' = Exec(db, b, <<c, 1>>)
            /\ mixed' = mixed \cup Mixing(c, b) /\ call'[c].st = "answered"
         \/ db' = Fail(db, b, dialect) /\ mixed' = mixed /\ call'[c].st = "failed"
  BY WriteStep
<1>2. /\ db \in Database /\ TypeOK /\ call[c].kind = "write" /\ call'[c].kind = call[c].kind
      /\ ~Lite => call[c].st \in Connected
      /\ OutcomeOf(c) /\ CallIsGiven(c) /\ NoCall \notin Call
  BY <1>1, HasIsConnected, OutcomesByCall, ConnectionAssumption
     DEF Types, TypeOK, WriteEnds, InPlace, Said, CallsAreGiven, ConnectionAssumption
<1>3. call[c].finished = "no" /\ \A o \in Conn : db.txOf[o] # c
  BY <1>1, <1>2, FreshOwnsNone DEF Said, CallIsGiven
<1> HIDE DEF b
<1>4. CASE db' = Fail(db, b, dialect) /\ mixed' = mixed /\ call'[c].st = "failed"
  <2>1. /\ db'.txOf = db.txOf /\ db'.dirty = db.dirty /\ db'.durable = db.durable
        /\ db'.written = db.written
        /\ db'.aborted = IF dialect = "postgresql" /\ db.txOf[b] # NoCall THEN db.aborted \cup {b}
                                                                          ELSE db.aborted
    BY <1>1, <1>2, <1>4, FailEffect
  <2>2. TransactionsOf(c, b)
    BY <1>1, <1>2, <1>3, <1>4, <2>1 DEF TransactionsOf, Said, TransactionsAreOwned, Connected, Within, b
  <2>3. Undisturbed(c, b)
    BY <2>1 DEF Undisturbed, Untouched
  <2>4. OutcomeOf(c)'
    <3>1. c \notin mixed' => WritesAreKept(c)'
      BY <1>1, <1>2, <1>3, <1>4, <2>1 DEF OutcomeOf, WritesAreKept, Nowhere, Fresh, Within, Applied
    <3>2. QED
      BY <1>1, <1>2, <1>4, <3>1 DEF OutcomeOf, Fresh
  <2>5. QED
    BY <1>1, <2>2, <2>3, <2>4, StatementSays DEF b
<1>5. CASE /\ CanWrite(db, b, dialect) /\ db' = Exec(db, b, <<c, 1>>)
           /\ mixed' = mixed \cup Mixing(c, b) /\ call'[c].st = "answered"
  <2>1. /\ db'.txOf = db.txOf /\ db'.aborted = db.aborted
        /\ db'.dirty = IF db.txOf[b] = NoCall THEN db.dirty ELSE [db.dirty EXCEPT ![b] = @ \cup {<<c, 1>>}]
        /\ db'.durable = IF db.txOf[b] = NoCall THEN db.durable \cup {<<c, 1>>} ELSE db.durable
        /\ db'.written = db.written \cup {<<c, 1>>}
    BY <1>1, <1>2, <1>5, ExecEffect
  <2>2. /\ \A o \in Conn \ {b} : db'.dirty[o] = db.dirty[o]
        /\ db.txOf[b] = NoCall => db'.dirty[b] = db.dirty[b]
        /\ \A w : w[1] # c /\ w \in db'.dirty[b] => w \in db.dirty[b]
    BY <1>1, <1>2, <2>1 DEF Database
  <2>3. TransactionsOf(c, b)
    BY <1>1, <1>2, <1>3, <1>5, <2>1, <2>2 DEF TransactionsOf, Said, TransactionsAreOwned, Connected, Within, b
  <2>4. Undisturbed(c, b)
    BY <1>1, <1>2, <1>5, <2>1, <2>2, MixingTouches DEF Undisturbed
  <2>5. OutcomeOf(c)'
    <3>1. ASSUME c \notin mixed' PROVE WritesAreKept(c)'
      <4>1. c \notin mixed /\ db.txOf[b] = NoCall
        BY <1>1, <1>2, <1>3, <1>5, <3>1, MixingTouches
      <4>2. \A w \in db'.written : w[1] = c => w \in db'.durable
        BY <1>1, <1>2, <2>1, <4>1 DEF OutcomeOf, WritesAreKept, Database
      <4>3. QED
        BY <1>1, <1>3, <1>5, <4>2 DEF WritesAreKept, Fresh, Within, Applied
    <3>2. QED
      BY <1>1, <1>2, <1>5, <3>1 DEF OutcomeOf, Fresh
  <2>6. QED
    BY <1>1, <2>3, <2>4, <2>5, StatementSays DEF b
<1>6. QED
  BY <1>1, <1>4, <1>5

LEMMA ControlSays ==
    ASSUME Types, Said, NEW c \in Call, ControlPasses(c)
    PROVE  Said' /\ TransactionsOf(c, call[c].conn)
<1> DEFINE b == call[c].conn
<1>1. /\ InPlace(c) /\ Types' /\ b \in Conn /\ call[c].st \in Fresh /\ call[c].kind = "control"
      /\ call'[c].finished = call[c].finished /\ call'[c].caught = call[c].caught
      /\ \/ /\ CanBegin(db, b, dialect) /\ db' = Begin(db, b, c, dialect)
            /\ mixed' = mixed \cup Mixing(c, b) /\ call'[c].st = "answered"
         \/ /\ b \in db.open /\ db.txOf[b] # NoCall
            /\ db' = Commit(db, b) \/ db' = Rollback(db, b)
            /\ mixed' = mixed \cup Mixing(c, b) /\ call'[c].st = "answered"
         \/ db' = Fail(db, b, dialect) /\ mixed' = mixed /\ call'[c].st = "failed"
  BY ControlStep
<1>2. /\ db \in Database /\ TypeOK /\ call'[c].kind = call[c].kind
      /\ ~Lite => call[c].st \in Connected
      /\ OutcomeOf(c) /\ CallIsGiven(c) /\ NoCall \notin Call
  BY <1>1, HasIsConnected, OutcomesByCall, ConnectionAssumption
     DEF Types, TypeOK, ControlPasses, InPlace, Said, CallsAreGiven, ConnectionAssumption
<1>3. call[c].finished = "no" /\ call'[c].st \in {"answered", "failed"}
  BY <1>1, <1>2 DEF CallIsGiven
<1> HIDE DEF b
<1>4. /\ db'.written = db.written
      /\ \A o \in Conn \ {b} : db'.txOf[o] = db.txOf[o] /\ db'.dirty[o] = db.dirty[o]
      /\ db'.txOf[b] \in {NoCall, c, db.txOf[b]}
      /\ db'.txOf[b] = NoCall => db'.dirty[b] = {}
      /\ b \notin db.open => db'.txOf[b] = NoCall
      /\ db'.aborted # {} => dialect = "postgresql"
      /\ Undisturbed(c, b)
      /\ \A w : w \in db'.durable => w \in db.durable \/ w \in db.dirty[b]
      /\ db'.dirty[b] \subseteq db.dirty[b]
  <2>1. CASE CanBegin(db, b, dialect) /\ db' = Begin(db, b, c, dialect) /\ mixed' = mixed \cup Mixing(c, b)
    <3>1. /\ db'.txOf = [db.txOf EXCEPT ![b] = c] /\ db'.written = db.written
          /\ dialect # "mysql" => db'.aborted = db.aborted /\ db'.dirty = db.dirty /\ db'.durable = db.durable
          /\ dialect = "mysql" =>
               /\ db'.aborted = db.aborted \ {b} /\ db'.dirty = [db.dirty EXCEPT ![b] = {}]
               /\ db'.durable = IF b \in db.aborted THEN db.durable ELSE db.durable \cup db.dirty[b]
      BY <1>1, <1>2, <2>1, BeginEffect
    <3>2. /\ db'.txOf[b] = c /\ \A o \in Conn \ {b} : db'.txOf[o] = db.txOf[o] /\ db'.dirty[o] = db.dirty[o]
          /\ db'.dirty[b] \subseteq db.dirty[b] /\ db'.aborted \subseteq db.aborted
          /\ \A w : w \in db.durable => w \in db'.durable
          /\ \A w : w \in db'.durable => w \in db.durable \/ w \in db.dirty[b]
      BY <1>1, <1>2, <3>1 DEF Database
    <3>3. Undisturbed(c, b)
      BY <1>1, <1>2, <2>1, <3>1, <3>2, MixingTouches DEF Undisturbed
    <3>4. b \in db.open
      BY <2>1 DEF CanBegin, CanWrite
    <3>5. QED
      BY <1>2, <3>1, <3>2, <3>3, <3>4 DEF Said, TransactionsAreOwned
  <2>2. CASE (db' = Commit(db, b) \/ db' = Rollback(db, b)) /\ mixed' = mixed \cup Mixing(c, b)
    <3>1. /\ db'.txOf = [db.txOf EXCEPT ![b] = NoCall] /\ db'.written = db.written
          /\ db'.aborted = db.aborted \ {b} /\ db'.dirty = [db.dirty EXCEPT ![b] = {}]
          /\ db'.durable \in {db.durable, db.durable \cup db.dirty[b]}
      BY <1>1, <1>2, <2>2, CommitEffect, RollbackEffect
    <3>2. /\ db'.txOf[b] = NoCall /\ \A o \in Conn \ {b} : db'.txOf[o] = db.txOf[o] /\ db'.dirty[o] = db.dirty[o]
          /\ db'.dirty[b] = {} /\ db'.aborted \subseteq db.aborted
      BY <1>1, <1>2, <3>1 DEF Database
    <3>3. Undisturbed(c, b)
      BY <1>1, <1>2, <2>2, <3>1, <3>2, MixingTouches DEF Undisturbed
    <3>4. QED
      BY <3>1, <3>2, <3>3 DEF Said, TransactionsAreOwned
  <2>3. CASE db' = Fail(db, b, dialect) /\ mixed' = mixed
    <3>1. /\ db'.txOf = db.txOf /\ db'.dirty = db.dirty /\ db'.durable = db.durable
          /\ db'.written = db.written
          /\ db'.aborted = IF dialect = "postgresql" /\ db.txOf[b] # NoCall THEN db.aborted \cup {b}
                                                                            ELSE db.aborted
      BY <1>1, <1>2, <2>3, FailEffect
    <3>2. QED
      BY <1>1, <3>1 DEF Undisturbed, Untouched, Said, TransactionsAreOwned
  <2>4. QED
    BY <1>1, <2>1, <2>2, <2>3
<1>5. TransactionsOf(c, b)
  <2>1. mixed' \in {mixed, mixed \cup Mixing(c, b)}
    BY <1>1
  <2>2. call'[c].st \notin Connected
    BY <1>3 DEF Connected, Within
  <2>3. QED
    BY <1>1, <1>2, <1>4, <2>1, <2>2 DEF TransactionsOf, b
<1>6. OutcomeOf(c)'
  <2>1. ASSUME c \notin mixed' PROVE WritesAreKept(c)'
    <3>1. c \notin mixed
      BY <1>1, <2>1
    <3>2. \A w \in Write : w[1] = c => w \notin db.written /\ Nowhere(c, w)
      BY <1>1, <1>2, <3>1 DEF OutcomeOf, WritesAreKept
    <3>3. \A w \in Write : w[1] = c => w \notin db'.written /\ Nowhere(c, w)'
      BY <1>1, <1>4, <3>2 DEF Nowhere
    <3>4. db'.written \subseteq Write
      BY <1>2, <1>4 DEF Database
    <3>5. QED
      BY <1>3, <3>3, <3>4, <1>1 DEF WritesAreKept, Nowhere, Fresh, Within, Applied
  <2>2. QED
    BY <1>1, <1>2, <1>3, <2>1 DEF OutcomeOf, Fresh
<1>7. QED
  BY <1>1, <1>4, <1>5, <1>6, StatementSays DEF b

LEMMA TxBeginSays ==
    ASSUME Types, Said, NEW c \in Call, TxBegins(c)
    PROVE  Said' /\ TransactionsOf(c, call[c].conn)
<1> DEFINE b == call[c].conn
<1>1. /\ InPlace(c) /\ Types' /\ b \in Conn /\ call[c].st \in Fresh
      /\ call[c].kind = "transaction"
      /\ call'[c].finished = call[c].finished /\ call'[c].caught = call[c].caught
      /\ \/ /\ CanBegin(db, b, dialect) /\ db' = Begin(db, b, c, dialect)
            /\ mixed' = mixed \cup Mixing(c, b)
            /\ call'[c].st = "running" /\ call'[c].conn = b
         \/ db' = db /\ mixed' = mixed /\ call'[c].st = "failed"
  BY TxBeginStep
<1>2. /\ db \in Database /\ TypeOK /\ call'[c].kind = call[c].kind
      /\ ~Lite => call[c].st \in Connected
      /\ OutcomeOf(c) /\ CallIsGiven(c) /\ NoCall \notin Call
  BY <1>1, HasIsConnected, OutcomesByCall, ConnectionAssumption
     DEF Types, TypeOK, TxBegins, InPlace, Said, CallsAreGiven, ConnectionAssumption
<1>3. call[c].finished = "no" /\ \A o \in Conn : db.txOf[o] # c
  BY <1>1, <1>2, FreshOwnsNone DEF Said, CallIsGiven
<1>4. c \notin mixed' => \A w \in Write : w[1] = c => w \notin db.written /\ Nowhere(c, w)
  BY <1>1, <1>2 DEF OutcomeOf, WritesAreKept
<1> HIDE DEF b
<1>5. CASE db' = db /\ mixed' = mixed /\ call'[c].st = "failed"
  <2>1. TransactionsOf(c, b)
    BY <1>1, <1>2, <1>3, <1>5 DEF TransactionsOf, Said, TransactionsAreOwned, Connected, Within, b
  <2>2. Undisturbed(c, b)
    BY <1>5 DEF Undisturbed, Untouched
  <2>3. OutcomeOf(c)'
    <3>1. c \notin mixed' => WritesAreKept(c)'
      BY <1>1, <1>2, <1>3, <1>4, <1>5 DEF WritesAreKept, Nowhere, Fresh, Within, Applied
    <3>2. QED
      BY <1>1, <1>2, <1>3, <1>5, <3>1 DEF OutcomeOf, Fresh, Within, Said, TransactionsAreOwned, Database
  <2>4. QED
    BY <1>1, <2>1, <2>2, <2>3, StatementSays DEF b
<1>6. CASE /\ CanBegin(db, b, dialect) /\ db' = Begin(db, b, c, dialect)
           /\ mixed' = mixed \cup Mixing(c, b)
           /\ call'[c].st = "running" /\ call'[c].conn = b
  <2>1. /\ db'.txOf = [db.txOf EXCEPT ![b] = c] /\ db'.written = db.written
        /\ dialect # "mysql" => db'.aborted = db.aborted /\ db'.dirty = db.dirty /\ db'.durable = db.durable
        /\ dialect = "mysql" =>
             /\ db'.aborted = db.aborted \ {b} /\ db'.dirty = [db.dirty EXCEPT ![b] = {}]
             /\ db'.durable = IF b \in db.aborted THEN db.durable ELSE db.durable \cup db.dirty[b]
    BY <1>1, <1>2, <1>6, BeginEffect
  <2>2. /\ db'.txOf[b] = c /\ \A o \in Conn \ {b} : db'.txOf[o] = db.txOf[o] /\ db'.dirty[o] = db.dirty[o]
        /\ db'.dirty[b] \subseteq db.dirty[b] /\ db'.aborted \subseteq db.aborted
        /\ \A w : w \in db.durable => w \in db'.durable
        /\ \A w : w \in db'.durable => w \in db.durable \/ w \in db.dirty[b]
    BY <1>1, <1>2, <2>1 DEF Database
  <2>3. b \in db.open /\ b \notin db'.aborted
    BY <1>6, <2>2 DEF CanBegin, CanWrite
  <2>4. TransactionsOf(c, b)
    BY <1>1, <1>2, <1>3, <1>6, <2>1, <2>2, <2>3 DEF TransactionsOf, Said, TransactionsAreOwned, Within, b
  <2>5. Undisturbed(c, b)
    BY <1>1, <1>2, <1>6, <2>1, <2>2, MixingTouches DEF Undisturbed
  <2>6. OutcomeOf(c)'
    <3>1. ASSUME c \notin mixed' PROVE WritesAreKept(c)'
      <4>1. \A w \in Write : w[1] = c => w \notin db'.written /\ Nowhere(c, w)'
        BY <1>1, <1>4, <2>1, <2>2, <3>1 DEF Nowhere
      <4>2. db'.written \subseteq Write
        BY <1>2, <2>1 DEF Database
      <4>3. QED
        BY <1>1, <1>3, <1>6, <2>2, <4>1, <4>2 DEF WritesAreKept, Nowhere, Fresh, Within, Applied
    <3>2. \A o \in db'.aborted : db'.txOf[o] # c
      BY <1>2, <1>3, <2>2, <2>3 DEF Database
    <3>3. QED
      BY <1>1, <1>2, <1>6, <3>1, <3>2 DEF OutcomeOf, Fresh
  <2>7. QED
    BY <1>1, <2>4, <2>5, <2>6, StatementSays DEF b
<1>7. QED
  BY <1>1, <1>5, <1>6

LEMMA TxWriteSays ==
    ASSUME Types, Said, NEW c \in Call, TxWrites(c)
    PROVE  Said' /\ TransactionsOf(c, call[c].conn)
<1> DEFINE b == call[c].conn
<1>1. /\ InPlace(c) /\ Types' /\ b \in Conn /\ call[c].st = "running"
      /\ call'[c].st = "running" /\ call'[c].conn = b
      /\ call'[c].finished = call[c].finished
      /\ \/ /\ CanWrite(db, b, dialect) /\ call'[c].caught = call[c].caught
            /\ \E w \in Write : w[1] = c /\ db' = Exec(db, b, w)
            /\ mixed' = mixed \cup Mixing(c, b)
         \/ /\ dialect = "postgresql" /\ call'[c].caught
            /\ db' = Fail(db, b, dialect) /\ mixed' = mixed
  BY TxWriteStep
<1>2. /\ db \in Database /\ TypeOK /\ call'[c].kind = call[c].kind /\ dialect' = dialect
      /\ call[c].kind = "transaction"
      /\ OutcomeOf(c) /\ NoCall \notin Call /\ db'.open = db.open
  BY <1>1, OutcomesByCall, ConnectionAssumption
     DEF Types, TypeOK, InPlace, InPlaceOf, Said, CallsAreGiven, CallIsGiven, Within, ConnectionAssumption
<1>3. \A o \in Conn : db.txOf[o] = c => o = b /\ call[c].finished = "no"
  BY <1>2 DEF Said, TransactionsAreOwned
<1>4. c \notin mixed' => WritesAreKept(c)
  BY <1>1, <1>2 DEF OutcomeOf
<1> HIDE DEF b
<1>5. CASE /\ dialect = "postgresql" /\ call'[c].caught
           /\ db' = Fail(db, b, dialect) /\ mixed' = mixed
  <2>1. /\ db'.txOf = db.txOf /\ db'.dirty = db.dirty /\ db'.durable = db.durable
        /\ db'.written = db.written
        /\ db'.aborted = IF dialect = "postgresql" /\ db.txOf[b] # NoCall THEN db.aborted \cup {b}
                                                                          ELSE db.aborted
    BY <1>1, <1>2, <1>5, FailEffect
  <2>2. TransactionsOf(c, b)
    BY <1>1, <1>2, <1>3, <1>5, <2>1 DEF TransactionsOf, Said, TransactionsAreOwned, Connected, Within, b
  <2>3. Undisturbed(c, b)
    BY <2>1 DEF Undisturbed, Untouched
  <2>4. OutcomeOf(c)'
    <3>1. c \notin mixed' => WritesAreKept(c)'
      BY <1>1, <1>2, <1>4, <1>5, <2>1 DEF WritesAreKept, Nowhere, Fresh, Applied, Within, b
    <3>2. QED
      BY <1>1, <1>2, <1>5, <3>1 DEF OutcomeOf, Fresh
  <2>5. QED
    BY <1>1, <2>2, <2>3, <2>4, StatementSays DEF b
<1>6. CASE /\ CanWrite(db, b, dialect) /\ call'[c].caught = call[c].caught
           /\ \E w \in Write : w[1] = c /\ db' = Exec(db, b, w)
           /\ mixed' = mixed \cup Mixing(c, b)
  <2>1. PICK w \in Write : w[1] = c /\ db' = Exec(db, b, w)
    BY <1>6
  <2>2. /\ db'.txOf = db.txOf /\ db'.aborted = db.aborted
        /\ db'.dirty = IF db.txOf[b] = NoCall THEN db.dirty ELSE [db.dirty EXCEPT ![b] = @ \cup {w}]
        /\ db'.durable = IF db.txOf[b] = NoCall THEN db.durable \cup {w} ELSE db.durable
        /\ db'.written = db.written \cup {w}
    BY <1>1, <1>2, <2>1, ExecEffect
  <2>3. /\ \A o \in Conn \ {b} : db'.dirty[o] = db.dirty[o]
        /\ db.txOf[b] = NoCall => db'.dirty[b] = db.dirty[b]
        /\ db.txOf[b] # NoCall => db'.dirty[b] = db.dirty[b] \cup {w}
    BY <1>1, <1>2, <2>2 DEF Database
  <2>4. TransactionsOf(c, b)
    BY <1>1, <1>2, <1>3, <1>6, <2>2, <2>3 DEF TransactionsOf, Said, TransactionsAreOwned, Connected, Within, b
  <2>5. Undisturbed(c, b)
    BY <1>1, <1>2, <1>6, <2>1, <2>2, <2>3, MixingTouches DEF Undisturbed
  <2>6. OutcomeOf(c)'
    <3>1. ASSUME c \notin mixed' PROVE WritesAreKept(c)'
      <4>1. WritesAreKept(c) /\ db.txOf[b] \in {NoCall, c} /\ b \in db.open
        BY <1>1, <1>2, <1>4, <1>6, <3>1, MixingTouches DEF CanWrite
      <4>2. CASE call[c].finished = "no"
        <5>1. db.txOf[b] = c
          BY <1>1, <4>1, <4>2 DEF WritesAreKept, Within, b
        <5>2. db'.durable = db.durable /\ db'.dirty[b] = db.dirty[b] \cup {w}
          BY <1>2, <2>2, <2>3, <5>1
        <5>3. \A o \in Conn, v \in Write : v[1] = c /\ v \in db'.dirty[o] => o = b
          BY <1>1, <2>3, <4>1, <4>2 DEF WritesAreKept, Within, b
        <5>4. \A v \in db'.written : v[1] = c => v \in db'.dirty[b]
          BY <1>1, <2>2, <4>1, <4>2, <5>2 DEF WritesAreKept, Within, b
        <5>5. \A v \in Write : v[1] = c => v \notin db'.durable
          BY <1>1, <4>1, <4>2, <5>2 DEF WritesAreKept, Within, b
        <5>6. QED
          BY <1>1, <1>2, <2>2, <4>1, <4>2, <5>1, <5>3, <5>4, <5>5 DEF WritesAreKept, Within, Fresh, Applied, b
      <4>3. CASE call[c].finished # "no"
        <5>1. db.txOf[b] = NoCall
          BY <1>1, <1>3, <4>1, <4>3
        <5>2. db'.durable = db.durable \cup {w}
          BY <2>2, <5>1
        <5>3. QED
          BY <1>1, <1>2, <1>6, <2>2, <4>1, <4>3, <5>2 DEF WritesAreKept, Within, Fresh, Applied
      <4>4. QED
        BY <4>2, <4>3
    <3>2. \A o \in db'.aborted : db'.txOf[o] = c => call'[c].caught
      BY <1>2, <1>6, <2>2 DEF OutcomeOf
    <3>3. QED
      BY <1>1, <1>2, <3>1, <3>2 DEF OutcomeOf, Fresh
  <2>7. QED
    BY <1>1, <2>4, <2>5, <2>6, StatementSays DEF b
<1>7. QED
  BY <1>1, <1>5, <1>6

(* Commit and rollback of the function's own transaction. *)
LEMMA EndsTransaction ==
    ASSUME Types, Said, NEW c \in Call, NEW b \in Conn, b = call[c].conn, InPlace(c),
           db' = Commit(db, b) \/ db' = Rollback(db, b), mixed' = mixed \cup Mixing(c, b),
           call[c].st = "running", call[c].kind = "transaction",
           call'[c].st \in Connected => call'[c].conn = b
    PROVE  TransactionsOf(c, b) /\ Undisturbed(c, b) /\ \A o \in Conn : db'.txOf[o] # c
<1>1. /\ db \in Database /\ TypeOK /\ NoCall \notin Call
  BY ConnectionAssumption DEF Types, TypeOK, ConnectionAssumption
<1>2. /\ db'.txOf = [db.txOf EXCEPT ![b] = NoCall] /\ db'.written = db.written
      /\ db'.aborted = db.aborted \ {b} /\ db'.dirty = [db.dirty EXCEPT ![b] = {}]
      /\ db'.durable \in {db.durable, db.durable \cup db.dirty[b]}
  BY <1>1, CommitEffect, RollbackEffect
<1>3. /\ db'.txOf[b] = NoCall /\ \A o \in Conn \ {b} : db'.txOf[o] = db.txOf[o] /\ db'.dirty[o] = db.dirty[o]
      /\ db'.dirty[b] = {} /\ db'.aborted \subseteq db.aborted
  BY <1>1, <1>2 DEF Database
<1>4. \A o \in Conn : db.txOf[o] = c => o = b
  BY <1>1 DEF Said, TransactionsAreOwned
<1>5. \A o \in Conn : db'.txOf[o] # c
  BY <1>1, <1>3, <1>4
<1>6. Undisturbed(c, b)
  BY <1>1, <1>2, <1>3, MixingTouches DEF Undisturbed
<1>7. TransactionsOf(c, b)
  BY <1>1, <1>3, <1>5 DEF TransactionsOf, Said, TransactionsAreOwned, Connected, Within
<1>8. QED
  BY <1>5, <1>6, <1>7

(* All that the call wrote is committed, or nothing of it is left.         *)
LEMMA EndsOwn ==
    ASSUME Types, Said, NEW c \in Call, NEW b \in Conn, b = call[c].conn,
           call[c].st = "running", call[c].kind = "transaction", call[c].finished = "no",
           b \in db.open, c \notin mixed
    PROVE  /\ db' = Commit(db, b) =>
                \/ dialect = "postgresql" /\ call[c].caught
                \/ \A w \in db'.written : w[1] = c => w \in db'.durable
           /\ db' = Rollback(db, b) => \A w \in Write : Nowhere(c, w)'
<1>1. db \in Database /\ TypeOK /\ OutcomeOf(c)
  BY OutcomesByCall DEF Types, TypeOK, Said
<1>2. /\ \A w \in Write : w[1] = c => w \notin db.durable
      /\ \A o \in Conn, w \in Write : w[1] = c /\ w \in db.dirty[o] => o = b
      /\ db.txOf[b] = c
      /\ \A w \in db.written : w[1] = c => w \in db.dirty[b]
  BY <1>1 DEF OutcomeOf, WritesAreKept, Within
<1>3. ASSUME db' = Commit(db, b), ~(dialect = "postgresql" /\ call[c].caught)
      PROVE  \A w \in db'.written : w[1] = c => w \in db'.durable
  <2>1. b \notin db.aborted
    BY <1>1, <1>2, <1>3 DEF OutcomeOf, Said, TransactionsAreOwned
  <2>2. db'.durable = db.durable \cup db.dirty[b] /\ db'.written = db.written
    BY <1>1, <1>3, <2>1, CommitEffect
  <2>3. QED
    BY <1>2, <2>2
<1>4. ASSUME db' = Rollback(db, b) PROVE \A w \in Write : Nowhere(c, w)'
  <2>1. db'.dirty = [db.dirty EXCEPT ![b] = {}] /\ db'.durable = db.durable
    BY <1>1, <1>4, RollbackEffect
  <2>2. db'.dirty[b] = {} /\ \A o \in Conn \ {b} : db'.dirty[o] = db.dirty[o]
    BY <1>1, <2>1 DEF Database
  <2>3. QED
    BY <1>2, <2>1, <2>2 DEF Nowhere
<1>5. QED
  BY <1>3, <1>4

LEMMA TxFinishSays ==
    ASSUME Types, Said, NEW c \in Call, NEW how \in {"commit", "rollback"}, TxFinishes(c, how)
    PROVE  Said' /\ TransactionsOf(c, call[c].conn)
<1> DEFINE b == call[c].conn
<1>1. /\ InPlace(c) /\ Types' /\ b \in Conn /\ call[c].st = "running" /\ call[c].finished = "no"
      /\ b \in db.open
      /\ db' = IF how = "commit" THEN Commit(db, b) ELSE Rollback(db, b)
      /\ mixed' = mixed \cup Mixing(c, b)
      /\ call'[c].finished = how /\ call'[c].caught = call[c].caught
      /\ \/ call'[c].st = "running" /\ call'[c].conn = b
         \/ call'[c].st = "answered" /\ how = "commit"
         \/ call'[c].st = "failed" /\ how = "rollback"
  BY TxFinishStep
<1>2. /\ call'[c].kind = call[c].kind /\ dialect' = dialect /\ call[c].kind = "transaction"
  BY <1>1 DEF Types, InPlace, CallsAreGiven, CallIsGiven, Within
<1> HIDE DEF b
<1>3. TransactionsOf(c, b) /\ Undisturbed(c, b) /\ \A o \in Conn : db'.txOf[o] # c
  BY <1>1, <1>2, EndsTransaction DEF Connected, Within, b
<1>4. OutcomeOf(c)'
  <2>1. ASSUME c \notin mixed' PROVE WritesAreKept(c)'
    <3>1. CASE how = "commit"
      <4>1. \/ dialect = "postgresql" /\ call[c].caught
            \/ \A w \in db'.written : w[1] = c => w \in db'.durable
        BY <1>1, <1>2, <2>1, <3>1, EndsOwn DEF b
      <4>2. QED
        BY <1>1, <1>2, <3>1, <4>1 DEF WritesAreKept, Fresh, Applied
    <3>2. CASE how = "rollback"
      BY <1>1, <1>2, <3>2 DEF WritesAreKept, Fresh, Applied
    <3>3. QED
      BY <3>1, <3>2
  <2>2. db'.aborted \subseteq Conn
    BY <1>1 DEF InPlace, InPlaceOf, Database
  <2>3. QED
    BY <1>1, <1>2, <1>3, <2>1, <2>2 DEF OutcomeOf, Fresh
<1>5. QED
  BY <1>1, <1>3, <1>4, StatementSays DEF b

(* The database stays as it is, and the call ends. *)
LEMMA EndsQuietly ==
    ASSUME Types, Said, NEW c \in Call, InPlace(c), db' = db, mixed' = mixed, NEW b \in Conn,
           b = call[c].conn, call[c].st = "running", call[c].kind = "transaction",
           call'[c].st \in {"answered", "failed"},
           call[c].finished = "no" => b \notin db.open \/ db.txOf[b] = NoCall
    PROVE  TransactionsOf(c, b) /\ Undisturbed(c, b) /\ \A o \in Conn : db'.txOf[o] # c
<1>1. TypeOK /\ NoCall \notin Call
  BY ConnectionAssumption DEF Types, ConnectionAssumption
<1>2. \A o \in Conn : db.txOf[o] # c
  <2>1. \A o \in Conn : db.txOf[o] = c => o = b /\ call[c].finished = "no"
    BY <1>1 DEF Said, TransactionsAreOwned
  <2>2. QED
    BY <1>1, <2>1 DEF Said, TransactionsAreOwned
<1>3. Undisturbed(c, b)
  BY DEF Undisturbed, Untouched
<1>4. TransactionsOf(c, b)
  BY <1>1, <1>2 DEF TransactionsOf, Said, TransactionsAreOwned, Connected, Within
<1>5. QED
  BY <1>2, <1>3, <1>4

LEMMA TxReturnSays ==
    ASSUME Types, Said, NEW c \in Call, TxReturns(c)
    PROVE  Said' /\ TransactionsOf(c, call[c].conn)
<1> DEFINE b == call[c].conn
<1>1. /\ InPlace(c) /\ Types' /\ b \in Conn /\ call[c].st = "running"
      /\ call'[c].finished = call[c].finished /\ call'[c].caught = call[c].caught
      /\ \/ /\ call[c].finished # "no" /\ db' = db /\ mixed' = mixed
            /\ call'[c].st = "answered"
         \/ /\ call[c].finished = "no" /\ b \in db.open /\ db.txOf[b] # NoCall
            /\ mixed' = mixed \cup Mixing(c, b)
            /\ \/ db' = Commit(db, b) /\ call'[c].st = "answered"
               \/ db' = Rollback(db, b) /\ call'[c].st = "failed"
         \/ /\ call[c].finished = "no" /\ (b \notin db.open \/ db.txOf[b] = NoCall)
            /\ db' = db /\ mixed' = mixed /\ call'[c].st = "failed"
  BY TxReturnStep
<1>2. /\ call'[c].kind = call[c].kind /\ dialect' = dialect /\ call[c].kind = "transaction"
      /\ OutcomeOf(c) /\ NoCall \notin Call
      /\ db'.aborted \subseteq Conn
  BY <1>1, OutcomesByCall, ConnectionAssumption
     DEF Types, InPlace, InPlaceOf, Database, CallsAreGiven, CallIsGiven, Within, Said, ConnectionAssumption
<1> HIDE DEF b
<1>3. TransactionsOf(c, b) /\ Undisturbed(c, b) /\ \A o \in Conn : db'.txOf[o] # c
  <2>1. call'[c].st \in {"answered", "failed"} /\ call'[c].st \notin Connected
    BY <1>1 DEF Connected, Within
  <2>2. CASE /\ db' = db /\ mixed' = mixed
             /\ call[c].finished = "no" => b \notin db.open \/ db.txOf[b] = NoCall
    BY <1>1, <1>2, <2>1, <2>2, EndsQuietly DEF b
  <2>3. CASE (db' = Commit(db, b) \/ db' = Rollback(db, b)) /\ mixed' = mixed \cup Mixing(c, b)
    BY <1>1, <1>2, <2>1, <2>3, EndsTransaction DEF b
  <2>4. QED
    BY <1>1, <2>2, <2>3
<1>4. ASSUME c \notin mixed' PROVE WritesAreKept(c)'
  <2>1. WritesAreKept(c) /\ c \notin mixed
    BY <1>1, <1>2, <1>4 DEF OutcomeOf
  <2>2. CASE call[c].finished # "no"
    BY <1>1, <1>2, <2>1, <2>2 DEF WritesAreKept, Within, Fresh, Applied
  <2>3. CASE /\ call[c].finished = "no" /\ b \in db.open /\ db' = Commit(db, b) /\ call'[c].st = "answered"
    <3>1. \/ dialect = "postgresql" /\ call[c].caught
          \/ \A w \in db'.written : w[1] = c => w \in db'.durable
      BY <1>1, <1>2, <2>1, <2>3, EndsOwn DEF b
    <3>2. QED
      BY <1>1, <1>2, <2>3, <3>1 DEF WritesAreKept, Within, Fresh, Applied
  <2>4. CASE /\ call[c].finished = "no" /\ b \in db.open /\ db' = Rollback(db, b) /\ call'[c].st = "failed"
    <3>1. \A w \in Write : Nowhere(c, w)'
      BY <1>1, <1>2, <2>1, <2>4, EndsOwn DEF b
    <3>2. QED
      BY <1>1, <1>2, <2>4, <3>1 DEF WritesAreKept, Within, Fresh, Applied
  <2>5. CASE /\ call[c].finished = "no" /\ (b \notin db.open \/ db.txOf[b] = NoCall)
             /\ db' = db /\ call'[c].st = "failed"
    <3>1. b \notin db.open
      BY <1>1, <1>2, <2>1, <2>5 DEF WritesAreKept, Within, b
    <3>2. \A w \in Write : Nowhere(c, w)
      BY <1>1, <2>1, <2>5, <3>1 DEF WritesAreKept, Nowhere, Within, b
    <3>3. QED
      BY <1>1, <1>2, <2>5, <3>2 DEF WritesAreKept, Nowhere, Within, Fresh, Applied
  <2>6. QED
    BY <1>1, <2>2, <2>3, <2>4, <2>5
<1>5. OutcomeOf(c)'
  BY <1>1, <1>2, <1>3, <1>4 DEF OutcomeOf, Fresh
<1>6. QED
  BY <1>1, <1>3, <1>5, StatementSays DEF b

LEMMA TxThrowSays ==
    ASSUME Types, Said, NEW c \in Call, TxThrows(c)
    PROVE  Said' /\ TransactionsOf(c, call[c].conn)
<1> DEFINE b == call[c].conn
<1>1. /\ InPlace(c) /\ Types' /\ b \in Conn /\ call[c].st = "running"
      /\ call'[c].finished = call[c].finished /\ call'[c].caught = call[c].caught
      /\ call'[c].st = "failed"
      /\ \/ /\ call[c].finished = "no" /\ b \in db.open
            /\ db' = Rollback(db, b) /\ mixed' = mixed \cup Mixing(c, b)
         \/ /\ call[c].finished # "no" \/ b \notin db.open
            /\ db' = db /\ mixed' = mixed
  BY TxThrowStep
<1>2. /\ call'[c].kind = call[c].kind /\ dialect' = dialect /\ call[c].kind = "transaction"
      /\ OutcomeOf(c) /\ db'.aborted \subseteq Conn
  BY <1>1, OutcomesByCall
     DEF Types, InPlace, InPlaceOf, Database, CallsAreGiven, CallIsGiven, Within, Said
<1> HIDE DEF b
<1>3. TransactionsOf(c, b) /\ Undisturbed(c, b) /\ \A o \in Conn : db'.txOf[o] # c
  <2>1. call'[c].st \in {"answered", "failed"} /\ call'[c].st \notin Connected
    BY <1>1 DEF Connected, Within
  <2>2. CASE db' = db /\ mixed' = mixed /\ (call[c].finished # "no" \/ b \notin db.open)
    BY <1>1, <1>2, <2>1, <2>2, EndsQuietly DEF b
  <2>3. CASE db' = Rollback(db, b) /\ mixed' = mixed \cup Mixing(c, b)
    BY <1>1, <1>2, <2>1, <2>3, EndsTransaction DEF b
  <2>4. QED
    BY <1>1, <2>2, <2>3
<1>4. ASSUME c \notin mixed' PROVE WritesAreKept(c)'
  <2>1. WritesAreKept(c) /\ c \notin mixed
    BY <1>1, <1>2, <1>4 DEF OutcomeOf
  <2>2. CASE call[c].finished # "no"
    BY <1>1, <1>2, <2>1, <2>2 DEF WritesAreKept, Within, Fresh, Applied
  <2>3. CASE call[c].finished = "no" /\ b \in db.open
    <3>1. \A w \in Write : Nowhere(c, w)'
      BY <1>1, <1>2, <2>1, <2>3, EndsOwn DEF b
    <3>2. QED
      BY <1>1, <1>2, <2>3, <3>1 DEF WritesAreKept, Within, Fresh, Applied
  <2>4. CASE call[c].finished = "no" /\ b \notin db.open
    <3>1. \A w \in Write : Nowhere(c, w)
      BY <1>1, <2>1, <2>4 DEF WritesAreKept, Nowhere, Within, b
    <3>2. db' = db
      BY <1>1, <2>4
    <3>3. QED
      BY <1>1, <1>2, <2>4, <3>1, <3>2 DEF WritesAreKept, Nowhere, Within, Fresh, Applied
  <2>5. QED
    BY <2>2, <2>3, <2>4
<1>5. OutcomeOf(c)'
  BY <1>1, <1>2, <1>3, <1>4 DEF OutcomeOf, Fresh
<1>6. QED
  BY <1>1, <1>3, <1>5, StatementSays DEF b

LEMMA TxRetrySays ==
    ASSUME Types, Said, NEW c \in Call, TxRetries(c)
    PROVE  Said' /\ TransactionsOf(c, call[c].conn)
<1> DEFINE b == call[c].conn
<1>1. /\ InPlace(c) /\ Types' /\ b \in Conn /\ call[c].st = "running"
      /\ dialect = "mongodb" /\ call[c].finished = "no" /\ b \in db.open
      /\ call'[c].st = "running" /\ call'[c].conn = b
      /\ call'[c].finished = call[c].finished /\ call'[c].caught = call[c].caught
      /\ mixed' = mixed
      /\ db' = Forgotten(Begin(Rollback(db, b), b, c, dialect), c)
  BY TxRetryStep
<1>2. /\ db \in Database /\ call'[c].kind = call[c].kind /\ dialect' = dialect
      /\ call[c].kind = "transaction" /\ ~Lite
      /\ OutcomeOf(c) /\ NoCall \notin Call /\ db'.open = db.open
      /\ \A d \in Call : call[d].kind # "control"
  BY <1>1, OutcomesByCall, ConnectionAssumption
     DEF Types, TypeOK, InPlace, InPlaceOf, CallsAreGiven, CallIsGiven, Within, Said, ConnectionAssumption, Lite
<1> HIDE DEF b
<1>3. /\ db'.txOf = [db.txOf EXCEPT ![b] = c] /\ db'.dirty = [db.dirty EXCEPT ![b] = {}]
      /\ db'.aborted = db.aborted \ {b} /\ db'.durable = db.durable
      /\ db'.written = {w \in db.written : w[1] # c}
  BY <1>1, <1>2, RetryEffect DEF Types
<1>4. /\ db'.txOf[b] = c /\ \A o \in Conn \ {b} : db'.txOf[o] = db.txOf[o] /\ db'.dirty[o] = db.dirty[o]
      /\ db'.dirty[b] = {}
  BY <1>1, <1>2, <1>3 DEF Database
<1>5. \A o \in Conn : db.txOf[o] = c => o = b
  BY <1>2 DEF Said, TransactionsAreOwned, b
<1>6. \A d \in Call \ {c} : db.txOf[b] # d
  <2>1. ASSUME NEW d \in Call \ {c}, db.txOf[b] = d PROVE FALSE
    <3>1. call[d].st \in Within /\ call[d].conn = b
      BY <1>1, <1>2, <2>1 DEF Said, TransactionsAreOwned
    <3>2. QED
      BY <1>1, <1>2, <3>1 DEF Said, ConnectionsAreHeldOnce, Connected, Within, b
  <2>2. QED
    BY <2>1
<1>7. db.aborted = {}
  BY <1>1 DEF Said, TransactionsAreOwned
<1>8. TransactionsOf(c, b)
  BY <1>1, <1>2, <1>3, <1>4, <1>5, <1>7 DEF TransactionsOf, Connected, Within, b
<1>9. Undisturbed(c, b)
  BY <1>2, <1>3, <1>4, <1>6 DEF Undisturbed, Database
<1>10. OutcomeOf(c)'
  <2>1. ASSUME c \notin mixed' PROVE WritesAreKept(c)'
    <3>1. WritesAreKept(c)
      BY <1>1, <1>2, <2>1 DEF OutcomeOf
    <3>2. \A w \in Write : w[1] = c => w \notin db'.durable /\ \A o \in Conn : w \notin db'.dirty[o]
      BY <1>1, <1>3, <1>4, <3>1 DEF WritesAreKept, Within, b
    <3>3. \A w \in db'.written : w[1] # c
      BY <1>3
    <3>4. QED
      BY <1>1, <1>4, <3>2, <3>3 DEF WritesAreKept, Within, Fresh
  <2>2. QED
    BY <1>1, <1>2, <1>3, <1>7, <2>1 DEF OutcomeOf, Fresh
<1>11. QED
  BY <1>1, <1>8, <1>9, <1>10, StatementSays DEF b

LEMMA ImportSays ==
    ASSUME Types, Said, NEW c \in Call, Imports(c)
    PROVE  Said' /\ TransactionsOf(c, call[c].conn)
<1> DEFINE b == call[c].conn
<1>1. PICK t : t = Exec(db, b, <<c, 1>>)
  OBVIOUS
<1>2. /\ InPlace(c) /\ Types' /\ b \in Conn /\ call[c].st \in Fresh /\ call[c].kind = "import"
      /\ call'[c].finished = call[c].finished /\ call'[c].caught = call[c].caught
      /\ \/ /\ CanWrite(db, b, dialect) /\ mixed' = mixed \cup Mixing(c, b)
            /\ \/ /\ CanBegin(t, b, dialect)
                  /\ db' = Commit(Exec(Begin(t, b, c, dialect), b, <<c, 2>>), b)
                  /\ call'[c].st = "answered"
               \/ db' = t /\ call'[c].st = "failed"
         \/ db' = db /\ mixed' = mixed /\ call'[c].st = "failed"
  BY <1>1, ImportStep
<1>3. /\ db \in Database /\ TypeOK /\ call'[c].kind = call[c].kind /\ dialect' = dialect
      /\ ~Lite => call[c].st \in Connected
      /\ OutcomeOf(c) /\ CallIsGiven(c) /\ NoCall \notin Call
      /\ <<c, 1>> \in Write /\ <<c, 2>> \in Write /\ <<c, 1>> # <<c, 2>>
  BY <1>2, HasIsConnected, OutcomesByCall, ConnectionAssumption
     DEF Types, TypeOK, Imports, InPlace, Said, CallsAreGiven, ConnectionAssumption, Write
<1>4. call[c].finished = "no" /\ \A o \in Conn : db.txOf[o] # c
  BY <1>2, <1>3, FreshOwnsNone DEF Said, CallIsGiven
<1>5. Nowhere(c, <<c, 2>>)
  BY <1>2, <1>3 DEF OutcomeOf
<1> HIDE DEF b
<1>6. CASE db' = db /\ mixed' = mixed /\ call'[c].st = "failed"
  <2>1. TransactionsOf(c, b)
    BY <1>2, <1>3, <1>4, <1>6 DEF TransactionsOf, Said, TransactionsAreOwned, Connected, Within, b
  <2>2. Undisturbed(c, b)
    BY <1>6 DEF Undisturbed, Untouched
  <2>3. OutcomeOf(c)'
    <3>1. WritesAreKept(c)'
      BY <1>2, <1>3, <1>4, <1>6 DEF WritesAreKept, Fresh, Within, Applied
    <3>2. Nowhere(c, <<c, 2>>)'
      BY <1>5, <1>6 DEF Nowhere
    <3>3. QED
      BY <1>2, <1>3, <3>1, <3>2 DEF OutcomeOf
  <2>4. QED
    BY <1>2, <2>1, <2>2, <2>3, StatementSays DEF b
<1>7. /\ t \in Database /\ t.txOf = db.txOf /\ t.aborted = db.aborted
      /\ t.dirty = IF db.txOf[b] = NoCall THEN db.dirty ELSE [db.dirty EXCEPT ![b] = @ \cup {<<c, 1>>}]
      /\ t.durable = IF db.txOf[b] = NoCall THEN db.durable \cup {<<c, 1>>} ELSE db.durable
      /\ t.written = db.written \cup {<<c, 1>>}
  <2>1. Execs(db, b, <<c, 1>>, t)
    BY <1>1, <1>2, <1>3, ExecFields
  <2>2. QED
    BY <2>1 DEF Execs
<1>8. /\ \A o \in Conn \ {b} : t.dirty[o] = db.dirty[o]
      /\ \A w : w \in t.dirty[b] => w \in db.dirty[b] \/ w = <<c, 1>>
      /\ db.txOf[b] = NoCall => t.dirty[b] = db.dirty[b]
  BY <1>2, <1>3, <1>7 DEF Database
<1>9. CASE CanWrite(db, b, dialect) /\ mixed' = mixed \cup Mixing(c, b) /\ db' = t /\ call'[c].st = "failed"
  <2>1. /\ db'.txOf = db.txOf /\ db'.aborted = db.aborted
        /\ db'.durable = IF db.txOf[b] = NoCall THEN db.durable \cup {<<c, 1>>} ELSE db.durable
        /\ db'.written = db.written \cup {<<c, 1>>}
        /\ \A o \in Conn \ {b} : db'.dirty[o] = db.dirty[o]
        /\ \A w : w \in db'.dirty[b] => w \in db.dirty[b] \/ w = <<c, 1>>
        /\ db.txOf[b] = NoCall => db'.dirty[b] = db.dirty[b]
    BY <1>7, <1>8, <1>9
  <2>2. TransactionsOf(c, b)
    BY <1>2, <1>3, <1>4, <1>9, <2>1 DEF TransactionsOf, Said, TransactionsAreOwned, Connected, Within, b
  <2>3. Undisturbed(c, b)
    BY <1>2, <1>3, <1>9, <2>1, MixingTouches DEF Undisturbed
  <2>4. OutcomeOf(c)'
    <3>1. WritesAreKept(c)'
      BY <1>2, <1>3, <1>4, <1>9 DEF WritesAreKept, Fresh, Within, Applied
    <3>2. Nowhere(c, <<c, 2>>)'
      <4>1. <<c, 2>> \notin db'.durable
        BY <1>3, <1>5, <2>1 DEF Nowhere
      <4>2. \A o \in Conn : <<c, 2>> \notin db'.dirty[o]
        BY <1>3, <1>5, <2>1 DEF Nowhere
      <4>3. QED
        BY <4>1, <4>2 DEF Nowhere
    <3>3. QED
      BY <1>2, <1>3, <3>1, <3>2 DEF OutcomeOf
  <2>5. QED
    BY <1>2, <2>2, <2>3, <2>4, StatementSays DEF b
<1>10. CASE /\ CanWrite(db, b, dialect) /\ mixed' = mixed \cup Mixing(c, b)
            /\ CanBegin(t, b, dialect)
            /\ db' = Commit(Exec(Begin(t, b, c, dialect), b, <<c, 2>>), b)
            /\ call'[c].st = "answered"
  <2>1. Imported(c, b)
    BY <1>1, <1>10 DEF Imported
  <2>2. b \in db.open
    BY <1>10 DEF CanWrite
  <2>3. /\ db'.txOf[b] = NoCall /\ db'.dirty[b] = {} /\ db'.aborted \subseteq db.aborted
        /\ \A o \in Conn \ {b} : db'.txOf[o] = db.txOf[o] /\ db'.dirty[o] = db.dirty[o]
        /\ \A w : w \in db'.durable <=> w \in db.durable \cup db.dirty[b] \cup {<<c, 1>>, <<c, 2>>}
        /\ db'.written = db.written \cup {<<c, 1>>, <<c, 2>>}
    BY <1>2, <1>3, <1>10, <2>1, ImportEffect
  <2>4. TransactionsOf(c, b)
    BY <1>2, <1>3, <1>4, <1>10, <2>2, <2>3 DEF TransactionsOf, Said, TransactionsAreOwned, Connected, Within, b
  <2>5. Undisturbed(c, b)
    BY <1>2, <1>3, <1>10, <2>3, MixingTouches DEF Undisturbed
  <2>6. OutcomeOf(c)'
    <3>1. ASSUME c \notin mixed' PROVE WritesAreKept(c)'
      <4>1. WritesAreKept(c)
        BY <1>2, <1>3, <3>1 DEF OutcomeOf
      <4>2. db.written \subseteq Write
        BY <1>3 DEF Database
      <4>3. \A w \in db'.written : w[1] = c => w \in db'.durable
        BY <1>2, <2>3, <4>1, <4>2 DEF WritesAreKept
      <4>4. QED
        BY <1>2, <1>4, <1>10, <4>3 DEF WritesAreKept, Fresh, Within, Applied
    <3>2. QED
      BY <1>2, <1>3, <1>10, <3>1 DEF OutcomeOf, Fresh
  <2>7. QED
    BY <1>2, <2>4, <2>5, <2>6, StatementSays DEF b
<1>11. QED
  BY <1>2, <1>6, <1>9, <1>10

(* What a compound write has done stays, whatever its caller is told. *)
LEMMA CompoundSays ==
    ASSUME Types, Said, NEW c \in Call, CompoundRuns(c)
    PROVE  Said' /\ TransactionsOf(c, call[c].conn)
<1> DEFINE b == call[c].conn
<1>1. PICK t : t = Exec(db, b, <<c, 1>>)
  OBVIOUS
<1>2. /\ InPlace(c) /\ Types' /\ b \in Conn /\ call[c].st \in Fresh /\ call[c].kind = "compound"
      /\ call'[c].finished = call[c].finished /\ call'[c].caught = call[c].caught
      /\ ~Lite => call[c].st \in Connected
      /\ \/ /\ CanWrite(db, b, dialect) /\ mixed' = mixed \cup Mixing(c, b)
            /\ \/ db' = Exec(t, b, <<c, 2>>) /\ call'[c].st = "applied"
               \/ db' = t /\ call'[c].st = "failed"
         \/ db' = Fail(db, b, dialect) /\ mixed' = mixed /\ call'[c].st = "failed"
  BY <1>1, CompoundStep
<1>3. /\ db \in Database /\ TypeOK /\ call'[c].kind = "compound" /\ dialect' = dialect
      /\ OutcomeOf(c) /\ CallIsGiven(c) /\ NoCall \notin Call
  BY <1>2, OutcomesByCall, ConnectionAssumption
     DEF Types, TypeOK, InPlace, Said, CallsAreGiven, ConnectionAssumption
<1>4. call[c].finished = "no" /\ \A o \in Conn : db.txOf[o] # c
  BY <1>2, <1>3, FreshOwnsNone DEF Said, CallIsGiven
<1> HIDE DEF b
<1>5. CASE db' = Fail(db, b, dialect) /\ mixed' = mixed /\ call'[c].st = "failed"
  <2>1. /\ db'.txOf = db.txOf /\ db'.dirty = db.dirty /\ db'.durable = db.durable
        /\ db'.written = db.written
        /\ db'.aborted = IF dialect = "postgresql" /\ db.txOf[b] # NoCall THEN db.aborted \cup {b}
                                                                          ELSE db.aborted
    BY <1>2, <1>3, <1>5, FailEffect
  <2>2. TransactionsOf(c, b)
    BY <1>2, <1>3, <1>4, <1>5, <2>1 DEF TransactionsOf, Said, TransactionsAreOwned, Connected, Within, b
  <2>3. Undisturbed(c, b)
    BY <2>1 DEF Undisturbed, Untouched
  <2>4. OutcomeOf(c)'
    <3>1. c \notin mixed' => WritesAreKept(c)'
      BY <1>2, <1>3, <1>4, <1>5, <2>1 DEF OutcomeOf, WritesAreKept, Database, Fresh, Within, Applied
    <3>2. QED
      BY <1>3, <1>4, <1>5, <2>1, <3>1 DEF OutcomeOf, Fresh
  <2>5. QED
    BY <1>2, <2>2, <2>3, <2>4, StatementSays DEF b
<1>6. CASE CanWrite(db, b, dialect) /\ mixed' = mixed \cup Mixing(c, b) /\ call'[c].st \in {"applied", "failed"}
           /\ (db' = t \/ db' = Exec(t, b, <<c, 2>>))
  <2>1. PICK ws \in SUBSET {<<c, 1>>, <<c, 2>>} : Spreads(b, ws)
    BY <1>1, <1>2, <1>3, <1>6, CompoundEffect
  <2>2. TransactionsOf(c, b)
    BY <1>2, <1>3, <1>4, <1>6, <2>1
       DEF Spreads, TransactionsOf, Said, TransactionsAreOwned, Connected, Within, b
  <2>3. Undisturbed(c, b)
    BY <1>2, <1>3, <1>6, <2>1, MixingTouches DEF Undisturbed, Spreads
  <2>4. OutcomeOf(c)'
    <3>1. ASSUME c \notin mixed' PROVE WritesAreKept(c)'
      <4>1. c \notin mixed /\ db.txOf[b] = NoCall
        BY <1>2, <1>3, <1>4, <1>6, <3>1, MixingTouches
      <4>2. \A w \in db'.written : w[1] = c => w \in db'.durable
        BY <1>2, <1>3, <2>1, <4>1 DEF Spreads, OutcomeOf, WritesAreKept, Database
      <4>3. QED
        BY <1>2, <1>3, <1>4, <1>6, <4>2 DEF WritesAreKept, Fresh, Within, Applied
    <3>2. QED
      BY <1>2, <1>3, <1>4, <1>6, <2>1, <3>1 DEF OutcomeOf, Spreads, Fresh
  <2>5. QED
    BY <1>2, <2>2, <2>3, <2>4, StatementSays DEF b
<1>7. QED
  BY <1>2, <1>5, <1>6

-----------------------------------------------------------------------------
(* Who has what of the store and of the pools.                             *)

(* A server has no store: its part of the invariant is empty. *)
LEMMA NoStore ==
    ASSUME Types, ~Lite
    PROVE  HandlesAgree /\ StoreCounts /\ StoreIsHeld
<1>1. /\ \A h \in Handle : promise[h] = NoConn /\ field[h] = NoConn
      /\ \A c \in Call : CallIsGiven(c)
      /\ ~File /\ dialect # "memory"
  BY DEF Types, StoreIsKept, CallsAreGiven, Lite, File
<1>2. \A c \in Call : call[c].st = "waiting" => call[c].conn = NoConn
  BY <1>1 DEF CallIsGiven
<1>3. QED
  BY <1>1, <1>2 DEF HandlesAgree, StoreCounts, StoreIsHeld, Pending, NoConn

LEMMA NoStoreNext ==
    ASSUME Types', ~Lite'
    PROVE  (HandlesAgree /\ StoreCounts /\ StoreIsHeld)'
<1>1. /\ \A h \in Handle : promise'[h] = NoConn /\ field'[h] = NoConn
      /\ \A c \in Call : CallIsGiven(c)'
      /\ ~File' /\ dialect' # "memory"
  BY DEF Types, StoreIsKept, CallsAreGiven, Lite, File
<1>2. \A c \in Call : call'[c].st = "waiting" => call'[c].conn = NoConn
  BY <1>1 DEF CallIsGiven
<1>3. QED
  BY <1>1, <1>2 DEF HandlesAgree, StoreCounts, StoreIsHeld, Pending, NoConn

LEMMA NoPools ==
    ASSUME Lite
    PROVE  PoolsAreHeld
BY DEF PoolsAreHeld

LEMMA UsersAreFinite == IsFiniteSet(BackendUsers)
<1>1. IsFiniteSet(Handle \cup Call)
  BY ConnectionAssumption, FS_Union DEF ConnectionAssumption
<1>2. BackendUsers \subseteq Handle \cup Call
  BY DEF BackendUsers
<1>3. QED
  BY <1>1, <1>2, FS_Subset

LEMMA InPlaceAccounts ==
    ASSUME Types, Accounts, NEW c \in Call, InPlace(c)
    PROVE  Accounts'
<1>1. /\ UNCHANGED <<dialect, entry, entryRefs, opening, promise, field, raced, destroyed,
                     inst, gens, dying, late>>
      /\ db'.open = db.open /\ db'.home = db.home
      /\ \A d \in Call \ {c} : call'[d] = call[d]
      /\ call[c].kind # "test" /\ call'[c].kind # "test" /\ ~Over(c)
      /\ call[c].st = "waiting" => ~Lite
      /\ call'[c].st # "waiting"
      /\ \/ call'[c].on = call[c].on /\ call'[c].gen = call[c].gen
         \/ call'[c].st \in {"answered", "failed"}
  BY DEF InPlace, InPlaceOf, OthersStay, storeVars
<1>2. HandlesAgree'
  BY <1>1 DEF Accounts, HandlesAgree
<1>3. StoreCounts'
  <2>1. BackendUsers' = BackendUsers
    BY <1>1 DEF BackendUsers
  <2>2. QED
    BY <1>1, <2>1 DEF Accounts, StoreCounts, File
<1>4. \A o : Tests(o)' <=> Tests(o)
  BY <1>1 DEF Tests
<1>5. StoreIsHeld'
  <2>1. CASE ~Lite
    <3>1. StoreIsKept
      BY DEF Types
    <3>2. QED
      BY <1>1, <2>1, <3>1 DEF StoreIsHeld, StoreIsKept, Lite, File, Pending, NoConn
  <2>2. CASE Lite
    <3>1. \A d \in Call, h \in Handle : Waits(d, h) => d # c /\ Waits(d, h)' /\ call'[d].conn = call[d].conn
      BY <1>1, <2>2 DEF Waits
    <3>2. QED
      BY <1>1, <1>4, <3>1 DEF Accounts, StoreIsHeld, File
  <2>3. QED
    BY <2>1, <2>2
<1>6. PoolsAreHeld'
  <2>1. \A d \in Call : ~Over(d)' => ~Over(d) /\ call'[d].on = call[d].on /\ call'[d].gen = call[d].gen
                                      /\ (call'[d].kind # "test" => call[d].kind # "test")
    BY <1>1 DEF Over
  <2>2. QED
    BY <1>1, <1>4, <2>1 DEF Accounts, PoolsAreHeld, Lite
<1>7. QED
  BY <1>2, <1>3, <1>5, <1>6 DEF Accounts

(* SQLite. *)
LEMMA StartLiteAccounts ==
    ASSUME Types, Accounts, NEW c \in Call, NEW h \in Handle, NEW k \in kindsOf[c], StartLite(c, h, k)
    PROVE  Accounts'
<1>1. /\ OthersStay(c) /\ call[c].st = "none" /\ db' = db /\ Lite
      /\ call'[c].kind = k /\ k # "test"
      /\ \/ promise[h] = Rejected /\ call'[c].st = "failed"
         \/ /\ call'[c].st = "waiting" /\ call'[c].on = h
            /\ call'[c].conn = IF promise'[h] > 0 THEN promise'[h] ELSE NoConn
      /\ UNCHANGED <<dialect, field, destroyed, entry, raced>>
      /\ late \subseteq late'
  <2>1. Lite /\ UNCHANGED <<dialect, field, destroyed, entry, raced>>
    BY DEF StartLite, AskBackend
  <2>2. late \subseteq late'
    BY DEF StartLite, LateUse
  <2>3. QED
    BY <2>1, <2>2, StartLiteStep
<1>2. /\ TypeOK /\ call[c].kind # "test" /\ \A d \in Call \ {c} : call'[d] = call[d]
  BY <1>1 DEF Types, CallsAreGiven, CallIsGiven, OthersStay
<1>3. /\ \A g \in Handle \ {h} : promise'[g] = promise[g]
      /\ promise[h] # NoConn => promise' = promise /\ entryRefs' = entryRefs
      /\ promise[h] = NoConn /\ Found = Pending => promise'[h] = Pending /\ entryRefs' = entryRefs
      /\ promise[h] = NoConn /\ Found # Pending =>
            File /\ entry # NoConn /\ promise'[h] = entry /\ entryRefs' = entryRefs + 1
      /\ entry \in Conn \cup {NoConn} /\ entryRefs \in Nat
      /\ \A g \in Handle : promise[g] \in Conn \cup {NoConn, Pending, Rejected}
  BY <1>2 DEF StartLite, AskBackend, TypeOK, Found
<1>4. HandlesAgree'
  <2>1. ASSUME NEW g \in Handle \ destroyed, field[g] # NoConn PROVE promise'[g] = field[g]
    BY <1>1, <1>3, <2>1 DEF Accounts, HandlesAgree
  <2>2. ASSUME NEW g \in Handle \ destroyed, NEW d \in Call, call'[d].st = "waiting",
               call'[d].on = g, call'[d].conn # NoConn
        PROVE  promise'[g] = call'[d].conn
    <3>1. CASE d = c
      BY <1>1, <2>2, <3>1
    <3>2. CASE d # c
      <4>1. call'[d] = call[d]
        BY <1>2, <3>2
      <4>2. promise[g] = call[d].conn
        BY <2>2, <4>1 DEF Accounts, HandlesAgree
      <4>3. QED
        BY <1>3, <2>2, <4>1, <4>2
    <3>3. QED
      BY <3>1, <3>2
  <2>3. QED
    BY <1>1, <2>1, <2>2 DEF HandlesAgree
<1>5. StoreCounts'
  <2>1. SUFFICES ASSUME File, ~raced PROVE StoreCounts'
    BY <1>1 DEF StoreCounts, File
  <2>2. StoreCounts /\ IsFiniteSet(BackendUsers)
    BY UsersAreFinite DEF Accounts
  <2>3. CASE promise[h] # NoConn \/ Found = Pending
    <3>1. BackendUsers' = BackendUsers
      BY <1>1, <1>2, <1>3, <2>3 DEF BackendUsers, Pending, NoConn
    <3>2. QED
      BY <1>1, <1>2, <1>3, <2>1, <2>2, <2>3, <3>1 DEF StoreCounts, File, Pending, NoConn
  <2>4. CASE promise[h] = NoConn /\ Found # Pending
    <3>1. entry > 0
      BY <1>3, <2>4 DEF Conn, NoConn
    <3>2. BackendUsers' = BackendUsers \cup {h} /\ h \notin BackendUsers
      <4>1. h \notin Call
        BY ConnectionAssumption DEF ConnectionAssumption
      <4>2. QED
        BY <1>1, <1>2, <1>3, <2>4, <3>1, <4>1 DEF BackendUsers, NoConn
    <3>3. Cardinality(BackendUsers') = Cardinality(BackendUsers) + 1
      BY <2>2, <3>2, FS_AddElement
    <3>4. QED
      BY <1>1, <1>2, <1>3, <2>1, <2>2, <2>4, <3>3 DEF StoreCounts, File
  <2>5. QED
    BY <2>3, <2>4
<1>6. StoreIsHeld'
  <2>1. \A d \in Call : \A g : Waits(d, g) => Waits(d, g)' /\ call'[d] = call[d]
    BY <1>1, <1>2 DEF Waits
  <2>2. \A b : Tests(b) => Tests(b)'
    BY <1>1, <1>2 DEF Tests
  <2>3. call'[c].st = "waiting" => Waits(c, h)'
    BY <1>1 DEF Waits
  <2>4. ASSUME NEW g \in Handle, promise'[g] = Pending
        PROVE  \E d \in Call : Waits(d, g)' /\ call'[d].conn = NoConn
    <3>1. CASE promise[g] = Pending
      BY <2>1, <3>1 DEF Accounts, StoreIsHeld
    <3>2. CASE promise[g] # Pending
      <4>1. g = h /\ promise[h] = NoConn
        BY <1>3, <2>4, <3>2
      <4>2. QED
        BY <1>1, <2>3, <2>4, <4>1 DEF Pending, Rejected, NoConn
    <3>3. QED
      BY <3>1, <3>2
  <2>5. ASSUME NEW g \in Handle \ late', promise'[g] > 0, g \in destroyed \/ field[g] = NoConn
        PROVE  \E d \in Call : Waits(d, g)' /\ call'[d].conn # NoConn
    <3>1. CASE promise'[g] = promise[g]
      BY <1>1, <2>1, <2>5, <3>1 DEF Accounts, StoreIsHeld
    <3>2. CASE promise'[g] # promise[g]
      <4>1. g = h /\ promise[h] = NoConn
        BY <1>3, <3>2
      <4>2. QED
        BY <1>1, <2>3, <2>5, <4>1 DEF Rejected, NoConn
    <3>3. QED
      BY <3>1, <3>2
  <2>6. ASSUME dialect = "memory", NEW b \in db.open PROVE Tests(b)' \/ \E g \in Handle : promise'[g] = b
    <3>1. Tests(b) \/ \E g \in Handle : promise[g] = b
      BY <2>6 DEF Accounts, StoreIsHeld
    <3>2. b # NoConn
      BY <1>2 DEF TypeOK, Database, Conn, NoConn
    <3>3. \A g \in Handle : promise[g] = b => promise'[g] = b
      BY <1>3, <3>2
    <3>4. QED
      BY <2>2, <3>1, <3>3
  <2>7. ASSUME ~File, NEW g \in Handle \ Pooled PROVE promise'[g] = NoConn
    <3>1. g # h
      BY <2>7 DEF StartLite, Supports
    <3>2. QED
      BY <1>3, <2>7, <3>1 DEF Accounts, StoreIsHeld
  <2>8. QED
    BY <1>1, <2>4, <2>5, <2>6, <2>7 DEF StoreIsHeld, File
<1>7. QED
  BY <1>1, <1>4, <1>5, <1>6 DEF Accounts, PoolsAreHeld, Lite

LEMMA HandleOpensAccounts ==
    ASSUME Types, Accounts, NEW h \in Handle, HandleOpens(h)
    PROVE  Accounts'
<1>1. /\ Lite /\ h \in opening /\ promise[h] = Pending
      /\ db'.open = db.open \cup {db'.made} /\ db'.made \in Conn
      /\ \A c \in Call : /\ ~Awaits(c, h) => call'[c] = call[c]
                         /\ Awaits(c, h) =>
                               /\ call'[c].conn = db'.made /\ call'[c].st = "waiting"
                               /\ call'[c].kind = call[c].kind /\ call'[c].on = h
                               /\ call[c].kind # "test"
  BY HandleOpensStep, AwaitsIsLite
<1>2. /\ UNCHANGED <<dialect, field, destroyed>> /\ late \subseteq late'
      /\ entry' = (IF File THEN db'.made ELSE entry)
      /\ entryRefs' = (IF File THEN 1 ELSE entryRefs)
      /\ raced' = (raced \/ entry # NoConn)
      /\ promise'[h] = db'.made /\ \A g \in Handle \ {h} : promise'[g] = promise[g]
  BY DEF HandleOpens, BackendOpens, LateUse, Types, TypeOK
<1>3. TypeOK /\ StoreIsKept
  BY DEF Types
<1>4. HandlesAgree'
  <2>1. ASSUME NEW g \in Handle \ destroyed, field[g] # NoConn PROVE promise'[g] = field[g]
    <3>1. promise[g] = field[g] /\ field[g] \in Conn
      BY <1>3, <2>1 DEF Accounts, HandlesAgree, TypeOK
    <3>2. g # h
      BY <1>1, <3>1 DEF Pending, Conn
    <3>3. QED
      BY <1>2, <3>1, <3>2
  <2>2. ASSUME NEW g \in Handle \ destroyed, NEW d \in Call, call'[d].st = "waiting",
               call'[d].on = g, call'[d].conn # NoConn
        PROVE  promise'[g] = call'[d].conn
    <3>1. CASE Awaits(d, h)
      BY <1>1, <1>2, <2>2, <3>1
    <3>2. CASE ~Awaits(d, h)
      <4>1. call'[d] = call[d]
        BY <1>1, <3>2
      <4>2. promise[g] = call[d].conn /\ call[d].conn \in Conn
        BY <1>3, <2>2, <4>1 DEF Accounts, HandlesAgree, TypeOK, CallRecord
      <4>3. g # h
        BY <1>1, <4>2 DEF Pending, Conn
      <4>4. QED
        BY <1>2, <4>1, <4>2, <4>3
    <3>3. QED
      BY <3>1, <3>2
  <2>3. QED
    BY <1>2, <2>1, <2>2 DEF HandlesAgree
<1>5. StoreCounts'
  <2>1. SUFFICES ASSUME File, ~raced, entry = NoConn PROVE StoreCounts'
    BY <1>2 DEF StoreCounts, File
  <2>2. StoreCounts /\ IsFiniteSet(BackendUsers) /\ entryRefs = 0
    BY <1>3, <2>1, UsersAreFinite DEF Accounts, StoreIsKept
  <2>3. BackendUsers = {} /\ db.open = {}
    <3>1. Cardinality(BackendUsers) = 0 /\ db.open = {}
      BY <2>1, <2>2 DEF StoreCounts
    <3>2. QED
      BY <2>2, <3>1, FS_EmptySet
  <2>4. BackendUsers' = {h}
    <3>1. \A c \in Call : ~(call'[c].kind = "test" /\ call'[c].st = "ready")
      BY <1>1, <2>3 DEF BackendUsers
    <3>2. \A g \in Handle : promise'[g] > 0 <=> g = h
      BY <1>1, <1>2, <2>3 DEF BackendUsers, Conn
    <3>3. QED
      BY <3>1, <3>2 DEF BackendUsers
  <2>5. Cardinality(BackendUsers') = 1
    BY <2>4, FS_Singleton
  <2>6. db'.made # NoConn
    BY <1>1 DEF Conn, NoConn
  <2>7. \A c \in Call : call'[c].kind = "test" /\ call'[c].st = "ready" => FALSE
    BY <1>1, <2>3 DEF BackendUsers
  <2>8. \A g \in Handle : promise'[g] > 0 => promise'[g] = entry'
    BY <1>1, <1>2, <2>1, <2>3 DEF BackendUsers
  <2>9. QED
    BY <1>1, <1>2, <2>1, <2>3, <2>5, <2>6, <2>7, <2>8 DEF StoreCounts
<1>6. StoreIsHeld'
  <2>1. \A d \in Call, g \in Handle : Waits(d, g) => Waits(d, g)'
    BY <1>1 DEF Waits, Awaits
  <2>2. \A b : Tests(b) => Tests(b)'
    BY <1>1 DEF Tests, Awaits
  <2>3. \A d \in Call, g \in Handle \ {h} : Waits(d, g) => call'[d] = call[d]
    BY <1>1 DEF Waits, Awaits
  <2>4. ASSUME NEW g \in Handle, promise'[g] = Pending
        PROVE  \E d \in Call : Waits(d, g)' /\ call'[d].conn = NoConn
    <3>1. g # h
      BY <1>1, <1>2, <2>4 DEF Pending, Conn
    <3>2. QED
      BY <1>2, <2>1, <2>3, <2>4, <3>1 DEF Accounts, StoreIsHeld
  <2>5. ASSUME NEW g \in Handle \ late', promise'[g] > 0, g \in destroyed \/ field[g] = NoConn
        PROVE  \E d \in Call : Waits(d, g)' /\ call'[d].conn # NoConn
    <3>1. CASE g = h
      <4>1. PICK d \in Call : Waits(d, h) /\ call[d].conn = NoConn
        BY <1>1 DEF Accounts, StoreIsHeld
      <4>2. Awaits(d, h)
        BY <4>1 DEF Waits, Awaits
      <4>3. Waits(d, h)' /\ call'[d].conn # NoConn
        BY <1>1, <2>1, <4>1, <4>2 DEF Conn, NoConn
      <4>4. QED
        BY <3>1, <4>3
    <3>2. CASE g # h
      BY <1>2, <2>1, <2>3, <2>5, <3>2 DEF Accounts, StoreIsHeld
    <3>3. QED
      BY <3>1, <3>2
  <2>6. ASSUME dialect = "memory", NEW b \in db'.open PROVE Tests(b)' \/ \E g \in Handle : promise'[g] = b
    <3>1. CASE b = db'.made
      BY <1>2, <3>1
    <3>2. CASE b \in db.open
      <4>1. Tests(b) \/ \E g \in Handle : promise[g] = b
        BY <2>6, <3>2 DEF Accounts, StoreIsHeld
      <4>2. b # Pending
        BY <1>3, <3>2 DEF TypeOK, Database, Conn, Pending
      <4>3. QED
        BY <1>1, <1>2, <2>2, <4>1, <4>2
    <3>3. QED
      BY <1>1, <3>1, <3>2
  <2>7. ASSUME ~File, NEW g \in Handle \ Pooled PROVE promise'[g] = NoConn
    <3>1. promise[g] = NoConn
      BY <2>7 DEF Accounts, StoreIsHeld
    <3>2. g # h
      BY <1>1, <3>1 DEF Pending, NoConn
    <3>3. QED
      BY <1>2, <3>1, <3>2
  <2>8. QED
    BY <1>2, <2>4, <2>5, <2>6, <2>7 DEF StoreIsHeld, File
<1>7. QED
  BY <1>1, <1>2, <1>4, <1>5, <1>6 DEF Accounts, PoolsAreHeld, Lite

LEMMA HandleFailsAccounts ==
    ASSUME Types, Accounts, NEW h \in Handle, HandleFails(h)
    PROVE  Accounts'
<1>1. /\ Lite /\ h \in opening /\ promise[h] = Pending /\ db' = db
      /\ \A c \in Call : /\ ~Awaits(c, h) => call'[c] = call[c]
                         /\ Awaits(c, h) => /\ call'[c].st = "failed" /\ call'[c].kind = call[c].kind
                                            /\ call[c].kind # "test"
  BY HandleFailsStep, AwaitsIsLite
<1>2. /\ UNCHANGED <<dialect, field, destroyed, entry, entryRefs, raced, late>>
      /\ promise'[h] = Rejected /\ \A g \in Handle \ {h} : promise'[g] = promise[g]
  BY DEF HandleFails, BackendFails, Types, TypeOK
<1>3. TypeOK
  BY DEF Types
<1>4. \A g \in Handle : promise'[g] > 0 => promise'[g] = promise[g]
  BY <1>2 DEF Rejected
<1>5. \A g \in Handle : promise[g] # Pending => promise'[g] = promise[g] /\ g # h
  BY <1>1, <1>2
<1>6. HandlesAgree'
  <2>1. ASSUME NEW g \in Handle \ destroyed, field[g] # NoConn PROVE promise'[g] = field[g]
    <3>1. promise[g] = field[g] /\ field[g] \in Conn
      BY <1>3, <2>1 DEF Accounts, HandlesAgree, TypeOK
    <3>2. QED
      BY <1>5, <3>1 DEF Pending, Conn
  <2>2. ASSUME NEW g \in Handle \ destroyed, NEW d \in Call, call'[d].st = "waiting",
               call'[d].on = g, call'[d].conn # NoConn
        PROVE  promise'[g] = call'[d].conn
    <3>1. call'[d] = call[d]
      BY <1>1, <2>2
    <3>2. promise[g] = call[d].conn /\ call[d].conn \in Conn
      BY <1>3, <2>2, <3>1 DEF Accounts, HandlesAgree, TypeOK, CallRecord
    <3>3. QED
      BY <1>5, <3>1, <3>2 DEF Pending, Conn
  <2>3. QED
    BY <1>2, <2>1, <2>2 DEF HandlesAgree
<1>7. StoreCounts'
  <2>1. BackendUsers' = BackendUsers
    <3>1. \A c \in Call : (call'[c].kind = "test" /\ call'[c].st = "ready") <=>
                          (call[c].kind = "test" /\ call[c].st = "ready")
      BY <1>1
    <3>2. \A g \in Handle : promise'[g] > 0 <=> promise[g] > 0
      BY <1>1, <1>2 DEF Pending, Rejected
    <3>3. QED
      BY <3>1, <3>2 DEF BackendUsers
  <2>2. QED
    BY <1>1, <1>2, <1>4, <2>1 DEF Accounts, StoreCounts, File
<1>8. StoreIsHeld'
  <2>1. \A d \in Call, g \in Handle \ {h} : Waits(d, g) => Waits(d, g)' /\ call'[d] = call[d]
    BY <1>1 DEF Waits, Awaits
  <2>2. \A b : Tests(b) => Tests(b)'
    BY <1>1 DEF Tests, Awaits
  <2>3. ASSUME NEW g \in Handle, promise'[g] = Pending
        PROVE  \E d \in Call : Waits(d, g)' /\ call'[d].conn = NoConn
    <3>1. g # h /\ promise[g] = Pending
      BY <1>2, <2>3 DEF Pending, Rejected
    <3>2. QED
      BY <2>1, <3>1 DEF Accounts, StoreIsHeld
  <2>4. ASSUME NEW g \in Handle \ late, promise'[g] > 0, g \in destroyed \/ field[g] = NoConn
        PROVE  \E d \in Call : Waits(d, g)' /\ call'[d].conn # NoConn
    <3>1. g # h
      BY <1>2, <2>4 DEF Rejected
    <3>2. QED
      BY <1>4, <2>1, <2>4, <3>1 DEF Accounts, StoreIsHeld
  <2>5. ASSUME dialect = "memory", NEW b \in db.open PROVE Tests(b)' \/ \E g \in Handle : promise'[g] = b
    <3>1. Tests(b) \/ \E g \in Handle : promise[g] = b
      BY <2>5 DEF Accounts, StoreIsHeld
    <3>2. b # Pending
      BY <1>3 DEF TypeOK, Database, Conn, Pending
    <3>3. QED
      BY <1>5, <2>2, <3>1, <3>2
  <2>6. ASSUME ~File, NEW g \in Handle \ Pooled PROVE promise'[g] = NoConn
    <3>1. promise[g] = NoConn
      BY <2>6 DEF Accounts, StoreIsHeld
    <3>2. QED
      BY <1>5, <3>1 DEF Pending, NoConn
  <2>7. QED
    BY <1>1, <1>2, <2>3, <2>4, <2>5, <2>6 DEF StoreIsHeld, File
<1>9. QED
  BY <1>1, <1>2, <1>6, <1>7, <1>8 DEF Accounts, PoolsAreHeld, Lite

LEMMA GetsBackendAccounts ==
    ASSUME Types, Accounts, NEW c \in Call, GetsBackend(c)
    PROVE  Accounts'
<1> DEFINE h == call[c].on
<1>1. /\ OthersStay(c) /\ Lite /\ db' = db
      /\ call[c].st = "waiting" /\ call[c].kind # "test" /\ h \in Handle
      /\ call[c].conn \in Conn /\ call'[c].st = "ready" /\ call'[c].kind = call[c].kind
  BY GetsBackendStep
<1>2. /\ UNCHANGED <<dialect, entry, entryRefs, promise, raced, destroyed>>
      /\ field'[h] = call[c].conn /\ \A g \in Handle \ {h} : field'[g] = field[g]
      /\ late \subseteq late' /\ (h \in destroyed => h \in late')
      /\ \A d \in Call \ {c} : call'[d] = call[d]
  BY <1>1 DEF GetsBackend, LateUse, Types, TypeOK, OthersStay
<1> HIDE DEF h
<1>3. call[c].conn # NoConn
  BY <1>1 DEF Conn, NoConn
<1>4. h \notin destroyed => promise[h] = call[c].conn
  BY <1>1, <1>3 DEF Accounts, HandlesAgree, h
<1>5. HandlesAgree'
  <2>1. ASSUME NEW g \in Handle \ destroyed, field'[g] # NoConn PROVE promise[g] = field'[g]
    BY <1>1, <1>2, <1>4, <2>1 DEF Accounts, HandlesAgree
  <2>2. ASSUME NEW g \in Handle \ destroyed, NEW d \in Call, call'[d].st = "waiting",
               call'[d].on = g, call'[d].conn # NoConn
        PROVE  promise[g] = call'[d].conn
    <3>1. call'[d] = call[d]
      BY <1>1, <1>2, <2>2
    <3>2. QED
      BY <2>2, <3>1 DEF Accounts, HandlesAgree
  <2>3. QED
    BY <1>2, <2>1, <2>2 DEF HandlesAgree
<1>6. StoreCounts'
  <2>1. BackendUsers' = BackendUsers
    BY <1>1, <1>2 DEF BackendUsers
  <2>2. QED
    BY <1>1, <1>2, <2>1 DEF Accounts, StoreCounts, File
<1>7. StoreIsHeld'
  <2>1. \A d \in Call, g \in Handle : Waits(d, g) /\ d # c => Waits(d, g)' /\ call'[d] = call[d]
    BY <1>2 DEF Waits
  <2>2. \A b : Tests(b) => Tests(b)'
    BY <1>1, <1>2 DEF Tests
  <2>3. ASSUME NEW g \in Handle, promise[g] = Pending
        PROVE  \E d \in Call : Waits(d, g)' /\ call'[d].conn = NoConn
    BY <1>3, <2>1, <2>3 DEF Accounts, StoreIsHeld
  <2>4. ASSUME NEW g \in Handle \ late', promise[g] > 0, g \in destroyed \/ field'[g] = NoConn
        PROVE  \E d \in Call : Waits(d, g)' /\ call'[d].conn # NoConn
    <3>1. g # h
      BY <1>2, <1>3, <2>4
    <3>2. PICK d \in Call : Waits(d, g) /\ call[d].conn # NoConn
      BY <1>2, <2>4, <3>1 DEF Accounts, StoreIsHeld
    <3>3. d # c
      BY <3>1, <3>2 DEF Waits, h
    <3>4. QED
      BY <2>1, <3>2, <3>3
  <2>5. QED
    BY <1>1, <1>2, <2>2, <2>3, <2>4 DEF Accounts, StoreIsHeld, File
<1>8. QED
  BY <1>1, <1>2, <1>5, <1>6, <1>7 DEF Accounts, PoolsAreHeld, Lite

LEMMA ReleaseCounts ==
    ASSUME Types, StoreCounts, File, ~raced, ReleaseBackend, entry # NoConn,
           NEW x \in BackendUsers, BackendUsers' = BackendUsers \ {x},
           \A h \in Handle : promise'[h] > 0 => promise'[h] = promise[h],
           \A c \in Call : call'[c].kind = "test" /\ call'[c].st = "ready" => call'[c] = call[c]
    PROVE  StoreCounts'
<1>1. /\ entry \in Conn /\ entryRefs \in Nat
      /\ entryRefs = Cardinality(BackendUsers) /\ db.open = {entry}
      /\ \A c \in Call : call[c].kind = "test" /\ call[c].st = "ready" => call[c].conn = entry
      /\ \A h \in Handle : promise[h] > 0 => promise[h] = entry
  BY DEF StoreCounts, Types, TypeOK
<1>2. /\ IsFiniteSet(BackendUsers') /\ Cardinality(BackendUsers') = entryRefs - 1
      /\ Cardinality(BackendUsers') \in Nat
  BY <1>1, UsersAreFinite, FS_RemoveElement, FS_CardinalityType
<1>3. CASE entryRefs > 1
  <2>1. db' = db /\ entry' = entry /\ entryRefs' = entryRefs - 1
    BY <1>3, ReleaseStep
  <2>2. QED
    BY <1>1, <1>2, <2>1 DEF StoreCounts
<1>4. CASE entryRefs <= 1
  <2>1. db'.open = db.open \ {entry} /\ entry' = NoConn /\ entryRefs' = 0
    BY <1>4, ReleaseStep
  <2>2. Cardinality(BackendUsers') = 0
    BY <1>1, <1>2, <1>4
  <2>3. BackendUsers' = {}
    BY <1>2, <2>2, FS_EmptySet
  <2>4. /\ \A h \in Handle : ~(promise'[h] > 0)
        /\ \A c \in Call : ~(call'[c].kind = "test" /\ call'[c].st = "ready")
    BY <2>3 DEF BackendUsers
  <2>5. QED
    BY <1>1, <2>1, <2>2, <2>4 DEF StoreCounts
<1>5. QED
  BY <1>1, <1>3, <1>4

LEMMA TestStartsAccounts ==
    ASSUME Types, Accounts, NEW c \in Call, TestStarts(c)
    PROVE  Accounts'
<1>1. /\ OthersStay(c) /\ db' = db /\ call[c].st = "none" /\ call'[c].kind = "test"
      /\ \/ Lite /\ Found # Pending /\ call'[c].st = "ready" /\ call'[c].conn = Found
         \/ ~(Lite /\ Found # Pending) /\ call'[c].st = "waiting" /\ call'[c].conn = NoConn
  BY TestStartsStep
<1>2. /\ UNCHANGED <<dialect, promise, field, destroyed, inst, gens, dying, late, entry, raced>>
      /\ entryRefs' = IF Lite /\ Found # Pending THEN entryRefs + 1 ELSE entryRefs
  BY DEF TestStarts, AskBackend, poolVars
<1>3. /\ TypeOK /\ call[c].kind # "test" /\ \A d \in Call \ {c} : call'[d] = call[d]
  BY <1>1 DEF Types, CallsAreGiven, CallIsGiven, OthersStay
<1>4. HandlesAgree'
  <2>1. ASSUME NEW d \in Call, call'[d].st = "waiting", call'[d].conn # NoConn PROVE call'[d] = call[d]
    BY <1>1, <1>3, <2>1
  <2>2. QED
    BY <1>2, <2>1 DEF Accounts, HandlesAgree
<1>5. StoreCounts'
  <2>1. SUFFICES ASSUME File, ~raced PROVE StoreCounts'
    BY <1>2 DEF StoreCounts, File
  <2>2. StoreCounts /\ IsFiniteSet(BackendUsers) /\ Lite
    BY <2>1, UsersAreFinite DEF Accounts, Lite, File
  <2>3. CASE Found = Pending
    <3>1. BackendUsers' = BackendUsers
      BY <1>1, <1>2, <1>3, <2>3 DEF BackendUsers
    <3>2. QED
      BY <1>1, <1>2, <1>3, <2>1, <2>2, <2>3, <3>1 DEF StoreCounts, File
  <2>4. CASE Found # Pending
    <3>1. c \notin Handle
      BY ConnectionAssumption DEF ConnectionAssumption
    <3>2. BackendUsers' = BackendUsers \cup {c} /\ c \notin BackendUsers
      <4>1. call'[c].kind = "test" /\ call'[c].st = "ready"
        BY <1>1, <2>2, <2>4
      <4>2. c \notin BackendUsers
        BY <1>3, <3>1 DEF BackendUsers
      <4>3. BackendUsers' = BackendUsers \cup {c}
        BY <1>2, <1>3, <4>1 DEF BackendUsers
      <4>4. QED
        BY <4>2, <4>3
    <3>3. Cardinality(BackendUsers') = Cardinality(BackendUsers) + 1
      BY <2>2, <3>2, FS_AddElement
    <3>4. Found = entry
      BY <2>4 DEF Found
    <3>5. QED
      BY <1>1, <1>2, <1>3, <2>1, <2>2, <2>4, <3>3, <3>4 DEF StoreCounts, File
  <2>5. QED
    BY <2>3, <2>4
<1>6. \A o : Tests(o) => Tests(o)'
  BY <1>3 DEF Tests
<1>7. StoreIsHeld'
  <2>1. \A d \in Call, h \in Handle : Waits(d, h) => Waits(d, h)' /\ call'[d] = call[d]
    BY <1>1, <1>3 DEF Waits
  <2>2. QED
    BY <1>1, <1>2, <1>6, <2>1 DEF Accounts, StoreIsHeld, File
<1>8. PoolsAreHeld'
  <2>1. \A d \in Call : ~Over(d)' /\ call'[d].kind # "test" => call'[d] = call[d] /\ ~Over(d)
    BY <1>1, <1>3 DEF Over
  <2>2. QED
    BY <1>1, <1>2, <1>6, <2>1 DEF Accounts, PoolsAreHeld, Lite
<1>9. QED
  BY <1>4, <1>5, <1>7, <1>8 DEF Accounts

LEMMA TestConnectsAccounts ==
    ASSUME Types, Accounts, NEW c \in Call, TestConnects(c)
    PROVE  Accounts'
<1>1. /\ OthersStay(c) /\ call[c].st = "waiting" /\ call[c].kind = "test" /\ call'[c].kind = "test"
      /\ \/ /\ Opens /\ db'.home = [db.home EXCEPT ![db.made + 1] = <<NoHandle, 0>>]
            /\ IF Lite THEN BackendOpens(c) ELSE UNCHANGED <<entry, entryRefs, opening, raced>>
            /\ call'[c].st = "ready" /\ call'[c].conn = db'.made
         \/ db' = db /\ UNCHANGED <<entry, entryRefs, raced>> /\ call'[c].st = "failed"
  BY TestConnectsStep
<1>2. UNCHANGED <<dialect, promise, field, destroyed, inst, gens, dying, late>>
  BY DEF TestConnects, poolVars
<1>3. TypeOK /\ StoreIsKept /\ \A d \in Call \ {c} : call'[d] = call[d]
  BY <1>1 DEF Types, OthersStay
<1>4. \A d \in Call : call'[d].st = "waiting" \/ call'[d].kind # "test" => call'[d] = call[d]
  BY <1>1, <1>3
<1>5. HandlesAgree'
  BY <1>2, <1>4 DEF Accounts, HandlesAgree
<1>6. StoreCounts'
  <2>1. CASE call'[c].st = "failed"
    <3>1. /\ db' = db /\ UNCHANGED <<entry, entryRefs, raced>>
      BY <1>1, <2>1
    <3>2. BackendUsers' = BackendUsers
      BY <1>1, <1>2, <1>3, <2>1 DEF BackendUsers
    <3>3. QED
      BY <1>1, <1>2, <1>3, <2>1, <3>1, <3>2 DEF Accounts, StoreCounts, File
  <2>2. CASE call'[c].st = "ready"
    <3>1. SUFFICES ASSUME File, ~raced' PROVE StoreCounts'
      BY <1>2 DEF StoreCounts, File
    <3>2. Lite /\ BackendOpens(c) /\ Opens /\ call'[c].conn = db'.made
      BY <1>1, <2>2, <3>1 DEF Lite, File
    <3>3. entry = NoConn /\ ~raced /\ entry' = db'.made /\ entryRefs' = 1
      BY <3>1, <3>2 DEF BackendOpens
    <3>4. StoreCounts /\ IsFiniteSet(BackendUsers) /\ entryRefs = 0
      BY <1>3, <3>3, UsersAreFinite DEF Accounts, StoreIsKept
    <3>5. BackendUsers = {} /\ db.open = {}
      <4>1. Cardinality(BackendUsers) = 0 /\ db.open = {}
        BY <3>1, <3>3, <3>4 DEF StoreCounts
      <4>2. QED
        BY <3>4, <4>1, FS_EmptySet
    <3>6. /\ \A h \in Handle : ~(promise'[h] > 0)
          /\ \A d \in Call \ {c} : ~(call'[d].kind = "test" /\ call'[d].st = "ready")
      BY <1>2, <1>3, <3>5 DEF BackendUsers
    <3>7. BackendUsers' = {c}
      BY <1>1, <2>2, <3>6 DEF BackendUsers
    <3>8. Cardinality(BackendUsers') = 1
      BY <3>7, FS_Singleton
    <3>9. db'.open = {db'.made} /\ db'.made # NoConn
      BY <3>2, <3>5 DEF Opens, Conn, NoConn
    <3>10. QED
      BY <3>2, <3>3, <3>6, <3>8, <3>9 DEF StoreCounts
  <2>3. QED
    BY <1>1, <2>1, <2>2
<1>7. \A o : Tests(o) => Tests(o)'
  BY <1>1, <1>3 DEF Tests
<1>8. \A b \in db'.open : b \in db.open \/ (Tests(b)' /\ Opens /\ b = db.made + 1)
  <2>1. CASE call'[c].st = "failed"
    BY <1>1, <2>1
  <2>2. CASE call'[c].st = "ready"
    <3>1. Opens /\ call'[c].conn = db'.made
      BY <1>1, <2>2
    <3>2. PICK n : n = db'.made
      OBVIOUS
    <3>3. Tests(n)'
      BY <1>1, <2>2, <3>1, <3>2 DEF Tests
    <3>4. \A b \in db'.open : b \in db.open \/ (b = n /\ b = db.made + 1)
      BY <3>1, <3>2 DEF Opens
    <3>5. QED
      BY <3>1, <3>3, <3>4
  <2>3. QED
    BY <1>1, <2>1, <2>2
<1>9. StoreIsHeld'
  <2>1. \A d \in Call, h \in Handle : Waits(d, h) => Waits(d, h)' /\ call'[d] = call[d]
    BY <1>1, <1>3 DEF Waits
  <2>2. QED
    BY <1>2, <1>7, <1>8, <2>1 DEF Accounts, StoreIsHeld, File
<1>10. PoolsAreHeld'
  <2>1. SUFFICES ASSUME ~Lite PROVE PoolsAreHeld'
    BY <1>2 DEF PoolsAreHeld, Lite
  <2>2. \A d \in Call : ~Over(d)' /\ call'[d].kind # "test" => call'[d] = call[d] /\ ~Over(d)
    BY <1>4 DEF Over
  <2>3. ASSUME NEW b \in db.open PROVE db'.home[b] = db.home[b]
    <3>1. b <= db.made /\ b \in Conn /\ db.made \in Nat /\ db.home \in [Conn -> Instance]
      BY <1>3 DEF StoreIsKept, TypeOK, Database
    <3>2. b # db.made + 1
      BY <3>1 DEF Conn
    <3>3. QED
      BY <1>1, <3>1, <3>2
  <2>4. ASSUME Opens, call'[c].st = "ready" PROVE db'.home[db.made + 1] = <<NoHandle, 0>>
    <3>1. db.made + 1 \in Conn /\ db.home \in [Conn -> Instance]
      BY <1>3, <2>4 DEF Opens, TypeOK, Database
    <3>2. QED
      BY <1>1, <2>4, <3>1
  <2>5. ASSUME NEW b \in db'.open, b \notin db.open PROVE db'.home[b] = <<NoHandle, 0>> /\ Tests(b)'
    <3>1. Tests(b)' /\ Opens /\ b = db.made + 1
      BY <1>8, <2>5
    <3>2. call'[c].st = "ready"
      BY <1>1, <2>5
    <3>3. QED
      BY <2>4, <3>1, <3>2
  <2>6. NoHandle \notin Handle
    BY ConnectionAssumption DEF ConnectionAssumption
  <2>7. ASSUME NEW b \in db'.open, db'.home[b] = <<NoHandle, 0>> PROVE Tests(b)'
    BY <1>7, <2>1, <2>3, <2>5, <2>7 DEF Accounts, PoolsAreHeld
  <2>8. ASSUME NEW h \in Handle, NEW b \in db'.open, db'.home[b][1] = h
        PROVE  b \in db.open /\ db'.home[b] = db.home[b]
    BY <2>3, <2>5, <2>6, <2>8
  <2>9. QED
    BY <1>2, <2>1, <2>2, <2>7, <2>8 DEF Accounts, PoolsAreHeld
<1>11. QED
  BY <1>5, <1>6, <1>9, <1>10 DEF Accounts

LEMMA TestEndsAccounts ==
    ASSUME Types, Accounts, NEW c \in Call, TestEnds(c)
    PROVE  Accounts'
<1>1. /\ OthersStay(c) /\ call[c].st = "ready" /\ call[c].kind = "test" /\ call[c].conn \in Conn
      /\ call'[c].st \in {"answered", "failed"} /\ db'.home = db.home
      /\ \/ File /\ call[c].conn \in db.open /\ ReleaseBackend
         \/ File /\ call[c].conn \notin db.open /\ UNCHANGED <<db, entry, entryRefs>>
         \/ ~File /\ db'.open = db.open \ {call[c].conn} /\ UNCHANGED <<entry, entryRefs>>
  BY TestEndsStep
<1>2. UNCHANGED <<dialect, promise, field, raced, destroyed, inst, gens, dying, late>>
  BY DEF TestEnds, poolVars
<1>3. TypeOK /\ \A d \in Call \ {c} : call'[d] = call[d]
  BY <1>1 DEF Types, OthersStay
<1>4. \A d \in Call : call'[d].st \notin {"answered", "failed"} => call'[d] = call[d]
  BY <1>1, <1>3
<1>5. HandlesAgree'
  BY <1>2, <1>4 DEF Accounts, HandlesAgree
<1>6. StoreCounts'
  <2>1. SUFFICES ASSUME File, ~raced PROVE StoreCounts'
    BY <1>2 DEF StoreCounts, File
  <2>2. StoreCounts
    BY DEF Accounts
  <2>3. call[c].conn = entry /\ entry # NoConn
    BY <1>1, <2>1, <2>2 DEF StoreCounts, Conn, NoConn
  <2>4. ReleaseBackend
    BY <1>1, <2>1, <2>2, <2>3 DEF StoreCounts
  <2>5. c \in BackendUsers
    BY <1>1 DEF BackendUsers
  <2>6. c \notin Handle
    BY ConnectionAssumption DEF ConnectionAssumption
  <2>7. BackendUsers' = BackendUsers \ {c}
    BY <1>1, <1>2, <1>3, <2>6 DEF BackendUsers
  <2>8. QED
    BY <1>2, <1>4, <2>1, <2>2, <2>3, <2>4, <2>5, <2>7, ReleaseCounts
<1>7. ~File => \A b \in db'.open : b \in db.open /\ (Tests(b) => Tests(b)')
  BY <1>1, <1>3 DEF Tests
<1>8. StoreIsHeld'
  <2>1. \A d \in Call, h \in Handle : Waits(d, h) => Waits(d, h)' /\ call'[d] = call[d]
    BY <1>1, <1>3 DEF Waits
  <2>2. QED
    BY <1>2, <1>7, <2>1 DEF Accounts, StoreIsHeld, File
<1>9. PoolsAreHeld'
  <2>1. \A d \in Call : ~Over(d)' => call'[d] = call[d] /\ ~Over(d)
    BY <1>4 DEF Over
  <2>2. ~Lite => ~File
    BY DEF Lite, File
  <2>3. QED
    BY <1>1, <1>2, <1>7, <2>1, <2>2 DEF Accounts, PoolsAreHeld, Lite
<1>10. QED
  BY <1>5, <1>6, <1>8, <1>9 DEF Accounts

LEMMA DestroyAccounts ==
    ASSUME Types, Accounts, NEW h \in Handle, Destroy(h)
    PROVE  Accounts'
<1>1. HandlesAgree
  BY DEF Accounts
<1>2. /\ Types' /\ call' = call /\ late' = late /\ db'.home = db.home
      /\ Lite => DestroyStoreHandle(h) /\ UNCHANGED poolVars
      /\ Lite /\ ~File /\ field[h] # NoConn => db'.open = db.open \ {field[h]}
      /\ ~Lite => DestroyPoolHandle(h) /\ db' = db
  BY <1>1, DestroyStep
<1>3. dialect' = dialect /\ (h \in Pooled \/ File) /\ TypeOK
  BY DEF Destroy, Types
<1>4. CASE ~Lite
  <2>1. /\ h \notin destroyed /\ destroyed' = destroyed \cup {h} /\ db' = db
        /\ dying' = [dying EXCEPT ![h] = inst[h]] /\ UNCHANGED <<inst, gens>>
    BY <1>2, <1>4 DEF DestroyPoolHandle
  <2>2. (HandlesAgree /\ StoreCounts /\ StoreIsHeld)'
    BY <1>2, <1>3, <1>4, NoStoreNext DEF Lite
  <2>3. /\ \A g \in Handle \ {h} : dying'[g] = dying[g]
        /\ dying'[h] = inst[h]
    BY <1>3, <2>1 DEF TypeOK
  <2>4. dying[h] = 0
    BY <2>1 DEF Types, StoreIsKept
  <2>5. \A o : Tests(o)' <=> Tests(o)
    BY <1>2 DEF Tests
  <2>6. \A d \in Call : Over(d)' <=> Over(d)
    BY <1>2 DEF Over
  <2>7. PoolsAreHeld'
    BY <1>2, <1>3, <1>4, <2>1, <2>3, <2>4, <2>5, <2>6 DEF Accounts, PoolsAreHeld, Lite
  <2>8. QED
    BY <2>2, <2>7 DEF Accounts
<1>5. CASE Lite
  <2>1. /\ h \notin destroyed /\ destroyed' = destroyed \cup {h} /\ raced' = raced
        /\ field'[h] = NoConn /\ \A g \in Handle \ {h} : field'[g] = field[g]
        /\ promise'[h] = IF field[h] = NoConn THEN promise[h] ELSE NoConn
        /\ \A g \in Handle \ {h} : promise'[g] = promise[g]
        /\ field[h] = NoConn => UNCHANGED <<db, entry, entryRefs>>
        /\ field[h] # NoConn /\ File => ReleaseBackend
    BY <1>2, <1>3, <1>5 DEF DestroyStoreHandle, TypeOK
  <2>2. field[h] # NoConn => promise[h] = field[h] /\ field[h] \in Conn
    BY <1>1, <1>3, <2>1 DEF HandlesAgree, TypeOK
  <2>3. HandlesAgree'
    BY <1>1, <1>2, <2>1 DEF HandlesAgree
  <2>4. StoreCounts'
    <3>1. SUFFICES ASSUME File, ~raced PROVE StoreCounts'
      BY <1>3, <2>1 DEF StoreCounts, File
    <3>2. StoreCounts
      BY DEF Accounts
    <3>3. CASE field[h] = NoConn
      <4>1. \A g \in Handle : promise'[g] = promise[g]
        BY <2>1, <3>3
      <4>2. BackendUsers' = BackendUsers
        BY <1>2, <4>1 DEF BackendUsers
      <4>3. QED
        BY <1>2, <2>1, <3>1, <3>2, <3>3, <4>1, <4>2 DEF StoreCounts
    <3>4. CASE field[h] # NoConn
      <4>1. ReleaseBackend /\ promise[h] > 0 /\ promise'[h] = NoConn
        BY <2>1, <2>2, <3>1, <3>4 DEF Conn
      <4>2. entry # NoConn /\ h \in BackendUsers
        BY <3>1, <3>2, <4>1 DEF StoreCounts, NoConn, BackendUsers
      <4>3. h \notin Call
        BY ConnectionAssumption DEF ConnectionAssumption
      <4>4. BackendUsers' = BackendUsers \ {h}
        BY <1>2, <2>1, <4>1, <4>3 DEF BackendUsers, NoConn
      <4>5. \A g \in Handle : promise'[g] > 0 => promise'[g] = promise[g]
        BY <2>1, <4>1 DEF NoConn
      <4>6. QED
        BY <1>2, <3>1, <3>2, <4>1, <4>2, <4>4, <4>5, ReleaseCounts
    <3>5. QED
      BY <3>3, <3>4
  <2>5. \A b : Tests(b)' <=> Tests(b)
    BY <1>2 DEF Tests
  <2>6. \A d \in Call, g \in Handle : Waits(d, g)' <=> Waits(d, g)
    BY <1>2 DEF Waits
  <2>7. StoreIsHeld'
    <3>1. StoreIsHeld
      BY DEF Accounts
    <3>2. ASSUME NEW g \in Handle, promise'[g] = Pending
          PROVE  \E d \in Call : Waits(d, g)' /\ call'[d].conn = NoConn
      <4>1. promise[g] = Pending
        BY <2>1, <3>2 DEF Pending, NoConn
      <4>2. QED
        BY <1>2, <2>6, <3>1, <4>1 DEF StoreIsHeld
    <3>3. ASSUME NEW g \in Handle \ late, promise'[g] > 0, g \in destroyed' \/ field'[g] = NoConn
          PROVE  \E d \in Call : Waits(d, g)' /\ call'[d].conn # NoConn
      <4>1. promise[g] > 0 /\ (g \in destroyed \/ field[g] = NoConn)
        BY <2>1, <3>3 DEF NoConn
      <4>2. QED
        BY <1>2, <2>6, <3>1, <4>1 DEF StoreIsHeld
    <3>4. ASSUME dialect = "memory", NEW b \in db'.open PROVE Tests(b)' \/ \E g \in Handle : promise'[g] = b
      <4>1. CASE field[h] = NoConn
        BY <2>1, <2>5, <3>1, <3>4, <4>1 DEF StoreIsHeld
      <4>2. CASE field[h] # NoConn
        <5>1. b \in db.open /\ b # field[h]
          BY <1>2, <1>5, <3>4, <4>2 DEF File
        <5>2. Tests(b) \/ \E g \in Handle \ {h} : promise[g] = b
          BY <2>2, <3>1, <3>4, <4>2, <5>1 DEF StoreIsHeld
        <5>3. QED
          BY <2>1, <2>5, <5>2
      <4>3. QED
        BY <4>1, <4>2
    <3>5. ASSUME ~File, NEW g \in Handle \ Pooled PROVE promise'[g] = NoConn
      BY <2>1, <3>1, <3>5 DEF StoreIsHeld
    <3>6. QED
      BY <1>2, <1>3, <3>2, <3>3, <3>4, <3>5 DEF StoreIsHeld, File
  <2>8. QED
    BY <1>3, <1>5, <2>3, <2>4, <2>7 DEF Accounts, PoolsAreHeld, Lite
<1>6. QED
  BY <1>4, <1>5

(* The pools of a server. *)
LEMMA InstanceAccounts ==
    ASSUME Types, Types', Accounts, ~Lite, NEW c \in Call, NEW h \in Handle, GetInstance(h),
           LateUse(h), OthersStay(c), db' = db, UNCHANGED <<dialect, destroyed>>,
           call[c].kind # "test", call'[c].kind # "test", call'[c].on = h, call'[c].gen = inst'[h]
    PROVE  Accounts'
<1>1. (HandlesAgree /\ StoreCounts /\ StoreIsHeld)'
  BY NoStoreNext DEF Lite
<1>2. TypeOK /\ late \subseteq late' /\ (h \in destroyed => h \in late')
  BY DEF Types, LateUse
<1>3. /\ \A g \in Handle \ {h} : inst'[g] = inst[g] /\ gens'[g] = gens[g]
      /\ inst[h] # 0 => inst'[h] = inst[h] /\ gens'[h] = gens[h]
      /\ inst[h] = 0 => inst'[h] = gens[h] + 1 /\ gens'[h] = gens[h] + 1
      /\ dying' = dying
  BY <1>2, GetInstanceStep
<1>4. \A d \in Call \ {c} : call'[d] = call[d] /\ (Over(d)' <=> Over(d))
  BY DEF OthersStay, Over
<1>5. \A o : Tests(o) => Tests(o)'
  BY <1>4 DEF Tests
<1>6. ASSUME h \notin late' PROVE /\ inst'[h] = 1 /\ gens'[h] = 1 /\ call'[c].gen = 1
                                 /\ gens[h] \in {0, 1} /\ (gens[h] = 1 => inst[h] = 1)
  <2>1. h \notin late /\ dying[h] = 0
    BY <1>2, <1>6 DEF Types, StoreIsKept
  <2>2. (inst[h] = 0 /\ gens[h] = 0) \/ (inst[h] = 1 /\ gens[h] = 1)
    BY <2>1 DEF Accounts, PoolsAreHeld
  <2>3. QED
    BY <1>3, <2>2
<1>7. ASSUME NEW g \in Handle \ late', g # h
      PROVE  /\ inst'[g] = inst[g] /\ gens'[g] = gens[g] /\ g \notin late
             /\ \A d \in Call : call'[d].on = g => d # c
  BY <1>2, <1>3, <1>7
<1>8. ASSUME NEW g \in Handle \ late'
      PROVE  /\ \/ inst'[g] = 0 /\ gens'[g] = 0
                \/ inst'[g] = 1 /\ gens'[g] = 1
                \/ inst'[g] = 0 /\ gens'[g] = 1 /\ dying'[g] = 1
             /\ \A d \in Call : ~Over(d)' /\ call'[d].kind # "test" /\ call'[d].on = g
                             => call'[d].gen = 1 /\ gens'[g] = 1
             /\ \A b \in db'.open : db'.home[b][1] = g => inst'[g] = 1 /\ db'.home[b] = <<g, 1>>
  <2>1. CASE g = h
    <3>1. ASSUME NEW d \in Call, ~Over(d)', call'[d].kind # "test", call'[d].on = g
          PROVE  call'[d].gen = 1
      <4>1. CASE d = c
        BY <1>6, <1>8, <2>1, <4>1
      <4>2. CASE d # c
        BY <1>2, <1>4, <1>8, <2>1, <3>1, <4>2 DEF Accounts, PoolsAreHeld
      <4>3. QED
        BY <4>1, <4>2
    <3>2. \A b \in db'.open : db'.home[b][1] = g => db'.home[b] = <<g, 1>>
      BY <1>2, <1>8, <2>1 DEF Accounts, PoolsAreHeld
    <3>3. QED
      BY <1>6, <1>8, <2>1, <3>1, <3>2
  <2>2. CASE g # h
    BY <1>3, <1>4, <1>7, <1>8, <2>2 DEF Accounts, PoolsAreHeld
  <2>3. QED
    BY <2>1, <2>2
<1>9. PoolsAreHeld'
  <2>1. \A b \in db'.open : db'.home[b] = <<NoHandle, 0>> => Tests(b)'
    BY <1>5 DEF Accounts, PoolsAreHeld
  <2>2. QED
    BY <1>8, <2>1 DEF PoolsAreHeld
<1>10. QED
  BY <1>1, <1>9 DEF Accounts

LEMMA AcquiredAccounts ==
    ASSUME Types, Types', Accounts, ~Lite, NEW c \in Call, NEW h \in Handle, NEW g \in Nat,
           NEW b \in Conn, CanAcquire(h, g, b, Held), db' = Acquired(h, g, b), OthersStay(c),
           UNCHANGED <<dialect, inst, gens, dying, late>>,
           ~Over(c), call[c].kind # "test", call[c].on = h, call[c].gen = g,
           call'[c].kind # "test", call'[c].on = h, call'[c].gen = g
    PROVE  Accounts'
<1>1. (HandlesAgree /\ StoreCounts /\ StoreIsHeld)'
  BY NoStoreNext DEF Lite
<1>2. TypeOK /\ \A o \in db.open : o <= db.made
  BY DEF Types, StoreIsKept
<1>3. /\ g # dying[h]
      /\ \/ db' = db
         \/ /\ Opens /\ b = db.made + 1
            /\ db'.home = [db.home EXCEPT ![b] = <<h, g>>]
  BY <1>2, AcquiredStep
<1>4. \A o \in db'.open : \/ o \in db.open /\ db'.home[o] = db.home[o]
                          \/ db'.home[o] = <<h, g>>
  <2>1. CASE db' = db
    BY <2>1
  <2>2. CASE Opens /\ b = db.made + 1 /\ db'.home = [db.home EXCEPT ![b] = <<h, g>>]
    <3>1. db.home \in [Conn -> Instance] /\ db.open \subseteq Conn /\ db.made \in Nat
      BY <1>2 DEF TypeOK, Database
    <3>2. \A o \in db.open : o # b
      BY <1>2, <2>2, <3>1 DEF Conn
    <3>3. db'.home[b] = <<h, g>> /\ db'.open = db.open \cup {b}
      BY <2>2, <3>1 DEF Opens
    <3>4. QED
      BY <2>2, <3>1, <3>2, <3>3
  <2>3. QED
    BY <1>3, <2>1, <2>2
<1>5. h \notin late => g = 1 /\ inst[h] = 1 /\ gens[h] = 1
  BY <1>3 DEF Accounts, PoolsAreHeld
<1>6. \A o : Tests(o) => Tests(o)'
  BY DEF Tests, OthersStay
<1>7. \A d \in Call : ~Over(d)' /\ call'[d].kind # "test" =>
          ~Over(d) /\ call[d].kind # "test" /\ call'[d].on = call[d].on /\ call'[d].gen = call[d].gen
  BY DEF OthersStay, Over
<1>8. h # NoHandle
  BY ConnectionAssumption DEF ConnectionAssumption
<1>9. PoolsAreHeld'
  <2>1. \A o \in db'.open : db'.home[o] = <<NoHandle, 0>> => Tests(o)'
    BY <1>4, <1>6, <1>8 DEF Accounts, PoolsAreHeld
  <2>2. ASSUME NEW k \in Handle \ late, NEW o \in db'.open, db'.home[o][1] = k
        PROVE  inst[k] = 1 /\ db'.home[o] = <<k, 1>>
    BY <1>4, <1>5, <2>2 DEF Accounts, PoolsAreHeld
  <2>3. ASSUME NEW k \in Handle \ late, NEW d \in Call, ~Over(d)', call'[d].kind # "test", call'[d].on = k
        PROVE  call'[d].gen = 1 /\ gens[k] = 1
    BY <1>7, <2>3 DEF Accounts, PoolsAreHeld
  <2>4. QED
    BY <2>1, <2>2, <2>3 DEF Accounts, PoolsAreHeld
<1>10. QED
  BY <1>1, <1>9 DEF Accounts

LEMMA StartServerAccounts ==
    ASSUME Types, Accounts, NEW c \in Call, NEW h \in Handle, NEW k \in kindsOf[c],
           StartServer(c, h, k)
    PROVE  Accounts'
<1>1. /\ Types' /\ OthersStay(c) /\ call[c].st = "none" /\ db' = db /\ ~Lite /\ GetInstance(h)
      /\ call'[c].kind # "test" /\ call'[c].on = h /\ call'[c].gen = inst'[h]
  BY StartServerStep
<1>2. LateUse(h) /\ UNCHANGED <<dialect, destroyed>>
  BY DEF StartServer
<1>3. call[c].kind # "test"
  BY <1>1 DEF Types, CallsAreGiven, CallIsGiven
<1>4. QED
  BY <1>1, <1>2, <1>3, InstanceAccounts

LEMMA TxProbesAccounts ==
    ASSUME Types, Accounts, NEW c \in Call, TxProbes(c)
    PROVE  Accounts'
<1>0. PICK h : h = call[c].on
  OBVIOUS
<1>1. /\ Types' /\ OthersStay(c) /\ db' = db /\ ~Lite /\ GetInstance(h) /\ h \in Handle
      /\ call[c].kind # "test" /\ call'[c].kind # "test" /\ call'[c].on = h
      /\ call'[c].gen = inst'[h]
  BY <1>0, TxProbesStep
<1>2. LateUse(h) /\ UNCHANGED <<dialect, destroyed>>
  BY <1>0 DEF TxProbes
<1>3. QED
  BY <1>1, <1>2, InstanceAccounts

LEMMA RereadAsksAccounts ==
    ASSUME Types, Accounts, NEW c \in Call, RereadAsks(c)
    PROVE  Accounts'
<1>0. PICK h : h = call[c].on
  OBVIOUS
<1>1. /\ Types' /\ OthersStay(c) /\ db' = db /\ ~Lite /\ GetInstance(h) /\ h \in Handle
      /\ call[c].kind # "test" /\ call'[c].kind # "test" /\ call'[c].on = h
      /\ call'[c].gen = inst'[h]
  BY <1>0, RereadAsksStep
<1>2. LateUse(h) /\ UNCHANGED <<dialect, destroyed>>
  BY <1>0 DEF RereadAsks
<1>3. QED
  BY <1>1, <1>2, InstanceAccounts

LEMMA AcquiresAccounts ==
    ASSUME Types, Accounts, NEW c \in Call, Acquires(c)
    PROVE  Accounts'
<1>0. PICK h, g, b : h = call[c].on /\ g = call[c].gen /\ b = call'[c].conn
  OBVIOUS
<1>1. /\ Types' /\ OthersStay(c) /\ ~Lite /\ call[c].st = "ready"
      /\ call[c].kind # "test" /\ call'[c].kind # "test"
      /\ call'[c].on = h /\ call'[c].gen = g
      /\ h \in Handle /\ g \in Nat /\ b \in Conn
      /\ CanAcquire(h, g, b, Held) /\ db' = Acquired(h, g, b)
  BY <1>0, AcquiresStep
<1>2. UNCHANGED <<dialect, inst, gens, dying, late>>
  BY DEF Acquires, poolVars
<1>3. ~Over(c)
  BY <1>1 DEF Over
<1>4. QED
  BY <1>0, <1>1, <1>2, <1>3, AcquiredAccounts

LEMMA ProbeAnswersAccounts ==
    ASSUME Types, Accounts, NEW c \in Call, ProbeAnswers(c)
    PROVE  Accounts'
<1>0. PICK h, g : h = call[c].on /\ g = call[c].gen
  OBVIOUS
<1>1. /\ Types' /\ OthersStay(c) /\ call[c].st = "probing"
      /\ call[c].kind # "test" /\ call'[c].kind # "test"
      /\ call'[c].on = h /\ call'[c].gen = g /\ h \in Handle /\ g \in Nat
      /\ \E b \in Conn : CanAcquire(h, g, b, Held) /\ db' = Acquired(h, g, b)
  BY <1>0, ProbeAnswersStep
<1>2. PICK b \in Conn : CanAcquire(h, g, b, Held) /\ db' = Acquired(h, g, b)
  BY <1>1
<1>3. UNCHANGED <<dialect, inst, gens, dying, late>>
  BY DEF ProbeAnswers
<1>4. ~Over(c)
  BY <1>1 DEF Over
<1>5. ~Lite
  BY <1>1 DEF Types, CallsAreGiven, CallIsGiven
<1>6. QED
  BY <1>0, <1>1, <1>2, <1>3, <1>4, <1>5, AcquiredAccounts

LEMMA RereadAnswersAccounts ==
    ASSUME Types, Accounts, NEW c \in Call, RereadAnswers(c)
    PROVE  Accounts'
<1>0. PICK h, g : h = call[c].on /\ g = call[c].gen
  OBVIOUS
<1>1. /\ Types' /\ OthersStay(c) /\ call[c].st = "rereading"
      /\ call[c].kind # "test" /\ call'[c].kind # "test"
      /\ call'[c].on = h /\ call'[c].gen = g /\ h \in Handle /\ g \in Nat
      /\ \E b \in Conn : CanAcquire(h, g, b, Held) /\ db' = Acquired(h, g, b)
  BY <1>0, RereadAnswersStep
<1>2. PICK b \in Conn : CanAcquire(h, g, b, Held) /\ db' = Acquired(h, g, b)
  BY <1>1
<1>3. UNCHANGED <<dialect, inst, gens, dying, late>>
  BY DEF RereadAnswers, poolVars
<1>4. ~Over(c)
  BY <1>1 DEF Over
<1>5. ~Lite
  BY <1>1 DEF Types, CallsAreGiven, CallIsGiven, Applied, Lite
<1>6. QED
  BY <1>0, <1>1, <1>2, <1>3, <1>4, <1>5, AcquiredAccounts

LEMMA DestroyEndsAccounts ==
    ASSUME Types, Accounts, NEW h \in Handle, DestroyEnds(h)
    PROVE  Accounts'
<1>1. /\ Types' /\ call' = call /\ late' = late /\ ~Lite
      /\ db'.home = db.home /\ db'.open = db.open \ ConnsOf(h, inst[h])
      /\ dying[h] # 0 /\ inst[h] = dying[h] /\ inst' = [inst EXCEPT ![h] = 0]
      /\ UNCHANGED <<gens, dying>>
  BY DestroyEndsStep
<1>2. dialect' = dialect /\ TypeOK
  BY DEF DestroyEnds, Types
<1>3. (HandlesAgree /\ StoreCounts /\ StoreIsHeld)'
  BY <1>1, <1>2, NoStoreNext DEF Lite
<1>4. inst'[h] = 0 /\ \A g \in Handle \ {h} : inst'[g] = inst[g]
  BY <1>1, <1>2 DEF TypeOK
<1>5. (\A o : Tests(o)' <=> Tests(o)) /\ (\A d \in Call : Over(d)' <=> Over(d))
  BY <1>1 DEF Tests, Over
<1>6. PoolsAreHeld'
  <2>1. \A o \in db'.open : db'.home[o] = <<NoHandle, 0>> => Tests(o)'
    BY <1>1, <1>5 DEF Accounts, PoolsAreHeld
  <2>2. ASSUME NEW g \in Handle \ late
        PROVE  /\ \/ inst'[g] = 0 /\ gens[g] = 0
                  \/ inst'[g] = 1 /\ gens[g] = 1
                  \/ inst'[g] = 0 /\ gens[g] = 1 /\ dying[g] = 1
               /\ \A b \in db'.open : db'.home[b][1] = g => inst'[g] = 1 /\ db'.home[b] = <<g, 1>>
    <3>1. CASE g = h
      <4>1. inst[h] = 1 /\ gens[h] = 1 /\ dying[h] = 1
        BY <1>1, <2>2, <3>1 DEF Accounts, PoolsAreHeld
      <4>2. ASSUME NEW b \in db'.open, db'.home[b][1] = h PROVE FALSE
        <5>1. b \in db.open /\ db.home[b] = <<h, 1>>
          BY <1>1, <2>2, <3>1, <4>2 DEF Accounts, PoolsAreHeld
        <5>2. b \in ConnsOf(h, inst[h])
          BY <4>1, <5>1 DEF ConnsOf
        <5>3. QED
          BY <1>1, <4>2, <5>2
      <4>3. QED
        BY <1>4, <3>1, <4>1, <4>2
    <3>2. CASE g # h
      BY <1>1, <1>4, <2>2, <3>2 DEF Accounts, PoolsAreHeld
    <3>3. QED
      BY <3>1, <3>2
  <2>3. ASSUME NEW g \in Handle \ late, NEW d \in Call, ~Over(d)', call'[d].kind # "test", call'[d].on = g
        PROVE  call'[d].gen = 1 /\ gens[g] = 1
    BY <1>1, <1>5, <2>3 DEF Accounts, PoolsAreHeld
  <2>4. QED
    BY <1>1, <2>1, <2>2, <2>3 DEF PoolsAreHeld
<1>7. QED
  BY <1>3, <1>6 DEF Accounts

-----------------------------------------------------------------------------
(* The invariant holds at first, and every step keeps it.                  *)

LEMMA InitEstablishes == Init => IInv
<1> SUFFICES ASSUME Init PROVE IInv
  OBVIOUS
<1>1. /\ \A c \in Call : /\ call[c].st = "none" /\ call[c].kind = "read" /\ call[c].on = NoHandle
                         /\ call[c].conn = NoConn /\ call[c].finished = "no"
      /\ dialect \in Dialect /\ db = NoDatabaseYet /\ entry = NoConn /\ entryRefs = 0 /\ opening = {}
      /\ \A h \in Handle : /\ promise[h] = NoConn /\ field[h] = NoConn
                           /\ inst[h] = 0 /\ gens[h] = 0 /\ dying[h] = 0
      /\ destroyed = {} /\ raced = FALSE /\ mixed = {} /\ late = {}
  BY DEF Init, StoreInit, PoolInit
<1>2. /\ db \in Database /\ db.made = 0 /\ db.open = {} /\ db.aborted = {}
      /\ db.durable = {} /\ db.written = {}
      /\ \A b \in Conn : db.txOf[b] = NoCall /\ db.dirty[b] = {}
  <2>1. 0 \in 0 .. MaxConns
    BY ConnectionAssumption DEF ConnectionAssumption
  <2>2. <<NoHandle, 0>> \in Instance
    BY DEF Instance
  <2>3. [b \in Conn |-> {}] \in [Conn -> SUBSET Write]
    OBVIOUS
  <2>4. QED
    BY <1>1, <2>1, <2>2, <2>3 DEF NoDatabaseYet, Database
<1>3. TypeOK
  <2>1. 0 \in 0 .. MaxInstances /\ 0 \in 0 .. MaxStatements
    BY PoolAssumption, StatementAssumption DEF PoolAssumption, StatementAssumption
  <2>2. call \in [Call -> CallRecord]
    BY <2>1 DEF Init, CallRecord, CallState, Kind
  <2>3. /\ promise \in [Handle -> Conn \cup {NoConn, Pending, Rejected}]
        /\ field \in [Handle -> Conn \cup {NoConn}] /\ raced \in BOOLEAN
    BY DEF Init, StoreInit
  <2>4. /\ inst \in [Handle -> 0 .. MaxInstances] /\ gens \in [Handle -> 0 .. MaxInstances]
        /\ dying \in [Handle -> 0 .. MaxInstances] /\ caps \subseteq Handle
    BY <2>1 DEF Init, PoolInit
  <2>5. QED
    BY <1>1, <1>2, <2>2, <2>3, <2>4 DEF TypeOK
<1>4. CallsAreGiven
  BY <1>1, <1>2 DEF CallsAreGiven, CallIsGiven, Over, Fresh, Connected, Within, Applied, NoConn
<1>5. StoreIsKept
  BY <1>1, <1>2 DEF StoreIsKept, NoConn, Pending
<1>6. Said
  <2>1. TransactionsAreOwned
    BY <1>1, <1>2, ConnectionAssumption DEF TransactionsAreOwned, ConnectionAssumption
  <2>2. ConnectionsAreHeldOnce
    BY <1>1 DEF ConnectionsAreHeldOnce, Connected, Within
  <2>3. OutcomesAreTold
    BY <1>1, <1>2 DEF OutcomesAreTold, WritesAreKept, Nowhere, Fresh, Within, Applied
  <2>4. QED
    BY <2>1, <2>2, <2>3 DEF Said
<1>7. ServerTransactionsAreAlone
  BY <1>1 DEF ServerTransactionsAreAlone
<1>8. Accounts
  <2>1. HandlesAgree
    BY <1>1 DEF HandlesAgree
  <2>2. StoreCounts
    <3>1. BackendUsers = {}
      BY <1>1 DEF BackendUsers, NoConn
    <3>2. Cardinality(BackendUsers) = 0
      BY <3>1, FS_EmptySet
    <3>3. QED
      BY <1>1, <1>2, <3>2 DEF StoreCounts, NoConn
  <2>3. StoreIsHeld
    BY <1>1, <1>2 DEF StoreIsHeld, Pending, NoConn
  <2>4. PoolsAreHeld
    BY <1>1, <1>2 DEF PoolsAreHeld, Over
  <2>5. QED
    BY <2>1, <2>2, <2>3, <2>4 DEF Accounts
<1>9. QED
  BY <1>3, <1>4, <1>5, <1>6, <1>7, <1>8 DEF IInv, Types

LEMMA CalmPreserves ==
    ASSUME IInv, Calm, Types', Accounts', ConnectionsAreHeldOnce'
    PROVE  IInv'
<1>1. Types /\ Said /\ ServerTransactionsAreAlone
  BY DEF IInv
<1>2. TransactionsAreOwned' /\ OutcomesAreTold'
  BY <1>1, CalmOwners, CalmOutcomes DEF Said
<1>3. ServerTransactionsAreAlone'
  <2>1. NoControls' => NoControls
    BY <1>1, SameKinds DEF Types
  <2>2. QED
    BY <1>1, <2>1 DEF ServerTransactionsAreAlone, Calm, Lite
<1>4. QED
  BY <1>2, <1>3 DEF IInv, Said

LEMMA HeldPreserves ==
    ASSUME IInv, Calm, KeepsConns, Types', Accounts'
    PROVE  IInv'
<1>1. ConnectionsAreHeldOnce'
  BY ConnectionsStayHeld DEF IInv, Said, Calm
<1>2. QED
  BY <1>1, CalmPreserves

LEMMA StatementPreserves ==
    ASSUME IInv, NEW c \in Call, InPlace(c), Types', Said', TransactionsOf(c, call[c].conn)
    PROVE  IInv'
<1>0. PICK b : b = call[c].conn
  OBVIOUS
<1>1. /\ TransactionsOf(c, b) /\ b \in Conn /\ mixed' \in {mixed, mixed \cup Mixing(c, b)}
      /\ dialect' = dialect
  BY <1>0 DEF TransactionsOf, InPlace
<1>2. ServerTransactionsAreAlone'
  <2>1. SUFFICES ASSUME ~Lite, NoControls' PROVE mixed' = {}
    BY <1>1 DEF ServerTransactionsAreAlone, Lite
  <2>2. NoControls
    BY <2>1 DEF NoControls, InPlace, OthersStay
  <2>3. Mixing(c, b) = {}
    BY <1>1, <2>1, <2>2, NobodyMixes DEF IInv, Said
  <2>4. mixed = {}
    BY <2>1, <2>2 DEF IInv, ServerTransactionsAreAlone
  <2>5. QED
    BY <1>1, <2>3, <2>4
<1>3. Accounts'
  BY InPlaceAccounts DEF IInv
<1>4. QED
  BY <1>2, <1>3 DEF IInv

LEMMA StartsPreserves ==
    ASSUME IInv, NEW c \in Call, Starts(c)
    PROVE  IInv'
<1>1. Types /\ Accounts
  BY DEF IInv
<1>2. ASSUME NEW h \in Handle, NEW k \in kindsOf[c], StartLite(c, h, k) PROVE IInv'
  BY <1>1, <1>2, StartLiteStep, StartLiteAccounts, HeldPreserves
<1>3. ASSUME NEW h \in Handle, NEW k \in kindsOf[c], StartServer(c, h, k) PROVE IInv'
  BY <1>1, <1>3, StartServerStep, StartServerAccounts, HeldPreserves
<1>4. CASE TestStarts(c)
  BY <1>1, <1>4, TestStartsStep, TestStartsAccounts, HeldPreserves
<1>5. QED
  BY <1>2, <1>3, <1>4 DEF Starts

LEMMA InTransactionPreserves ==
    ASSUME IInv, NEW c \in Call, InTransaction(c)
    PROVE  IInv'
<1>1. Types /\ Accounts /\ Said
  BY DEF IInv
<1>2. CASE TxWrites(c)
  BY <1>1, <1>2, TxWriteStep, TxWriteSays, StatementPreserves
<1>3. CASE TxProbes(c)
  BY <1>1, <1>3, TxProbesStep, TxProbesAccounts, HeldPreserves
<1>4. CASE ProbeAnswers(c)
  BY <1>1, <1>4, ProbeAnswersStep, ProbeAnswersAccounts, HeldPreserves
<1>5. CASE ProbeFails(c)
  BY <1>1, <1>5, QuietSteps, InPlaceAccounts, HeldPreserves DEF Quiet
<1>6. CASE TxRetries(c)
  BY <1>1, <1>6, TxRetryStep, TxRetrySays, StatementPreserves
<1>7. ASSUME NEW how \in {"commit", "rollback"}, TxFinishes(c, how) PROVE IInv'
  BY <1>1, <1>7, TxFinishStep, TxFinishSays, StatementPreserves
<1>8. CASE TxReturns(c)
  BY <1>1, <1>8, TxReturnStep, TxReturnSays, StatementPreserves
<1>9. CASE TxThrows(c)
  BY <1>1, <1>9, TxThrowStep, TxThrowSays, StatementPreserves
<1>10. QED
  BY <1>2, <1>3, <1>4, <1>5, <1>6, <1>7, <1>8, <1>9 DEF InTransaction

LEMMA ContinuesPreserves ==
    ASSUME IInv, NEW c \in Call, Continues(c)
    PROVE  IInv'
<1>1. Types /\ Accounts /\ Said
  BY DEF IInv
<1>2. CASE GetsBackend(c)
  BY <1>1, <1>2, GetsBackendStep, GetsBackendAccounts, HeldPreserves
<1>3. CASE Connects(c) \/ AcquireFails(c) \/ Probes(c) \/ ReadEnds(c) \/ RereadFails(c) \/ CompoundEnds(c)
  BY <1>1, <1>3, QuietSteps, InPlaceAccounts, HeldPreserves DEF Quiet
<1>4. CASE Acquires(c)
  BY <1>1, <1>4, AcquiresStep, AcquiresHolds, AcquiresAccounts, CalmPreserves DEF Said
<1>5. CASE WriteEnds(c)
  BY <1>1, <1>5, WriteStep, WriteSays, StatementPreserves
<1>6. CASE ControlPasses(c)
  BY <1>1, <1>6, ControlStep, ControlSays, StatementPreserves
<1>7. CASE Imports(c)
  BY <1>1, <1>7, ImportStep, ImportSays, StatementPreserves
<1>8. CASE TxBegins(c)
  BY <1>1, <1>8, TxBeginStep, TxBeginSays, StatementPreserves
<1>9. CASE InTransaction(c)
  BY <1>9, InTransactionPreserves
<1>10. CASE TestConnects(c)
  BY <1>1, <1>10, TestConnectsStep, TestConnectsAccounts, HeldPreserves
<1>11. CASE TestEnds(c)
  BY <1>1, <1>11, TestEndsStep, TestEndsAccounts, HeldPreserves
<1>12. CASE CompoundRuns(c)
  <2>1. InPlace(c) /\ Types'
    BY <1>1, <1>12, CompoundStep
  <2>2. QED
    BY <1>1, <1>12, <2>1, CompoundSays, StatementPreserves
<1>13. CASE RereadAsks(c)
  BY <1>1, <1>13, RereadAsksStep, RereadAsksAccounts, HeldPreserves
<1>14. CASE RereadAnswers(c)
  <2>1. Calm /\ KeepsConns /\ Types'
    BY <1>1, <1>14, RereadAnswersStep
  <2>2. QED
    BY <1>1, <1>14, <2>1, RereadAnswersAccounts, HeldPreserves
<1>15. QED
  BY <1>2, <1>3, <1>4, <1>5, <1>6, <1>7, <1>8, <1>9, <1>10, <1>11, <1>12, <1>13, <1>14 DEF Continues

LEMMA HandlesPreserve ==
    ASSUME IInv, NEW h \in Handle, Settles(h) \/ Destroy(h) \/ DestroyEnds(h)
    PROVE  IInv'
<1>1. Types /\ Accounts /\ HandlesAgree
  BY DEF IInv, Accounts
<1>2. CASE HandleOpens(h)
  BY <1>1, <1>2, HandleOpensStep, HandleOpensAccounts, HeldPreserves
<1>3. CASE HandleFails(h)
  BY <1>1, <1>3, HandleFailsStep, HandleFailsAccounts, HeldPreserves
<1>4. CASE Destroy(h)
  BY <1>1, <1>4, DestroyStep, DestroyAccounts, HeldPreserves
<1>5. CASE DestroyEnds(h)
  BY <1>1, <1>5, DestroyEndsStep, DestroyEndsAccounts, HeldPreserves
<1>6. QED
  BY <1>2, <1>3, <1>4, <1>5 DEF Settles

LEMMA StutterPreserves == IInv /\ UNCHANGED vars => IInv'
<1> SUFFICES ASSUME IInv, UNCHANGED vars PROVE IInv'
  OBVIOUS
<1> USE DEF vars, storeVars, poolVars
<1>1. TypeOK' /\ (\A c \in Call : CallIsGiven(c)') /\ StoreIsKept'
  BY DEF IInv, Types, TypeOK, CallsAreGiven, CallIsGiven, Over, Lite, File, StoreIsKept
<1>2. TransactionsAreOwned' /\ ConnectionsAreHeldOnce' /\ ServerTransactionsAreAlone'
  BY DEF IInv, Said, TransactionsAreOwned, ConnectionsAreHeldOnce, ServerTransactionsAreAlone,
         NoControls, Lite
<1>3. OutcomesAreTold'
  BY DEF IInv, Said, OutcomesAreTold, WritesAreKept, Nowhere
<1>4. HandlesAgree' /\ StoreCounts' /\ StoreIsHeld' /\ PoolsAreHeld'
  BY DEF IInv, Accounts, HandlesAgree, StoreCounts, BackendUsers, StoreIsHeld, PoolsAreHeld,
         Waits, Tests, Over, File, Lite
<1>5. QED
  BY <1>1, <1>2, <1>3, <1>4 DEF IInv, Types, CallsAreGiven, Said, Accounts

LEMMA NextPreserves == IInv /\ [Next]_vars => IInv'
<1> SUFFICES ASSUME IInv, [Next]_vars PROVE IInv'
  OBVIOUS
<1>1. ASSUME NEW c \in Call, Starts(c) \/ Continues(c) PROVE IInv'
  BY <1>1, StartsPreserves, ContinuesPreserves
<1>2. ASSUME NEW h \in Handle, Settles(h) \/ Destroy(h) \/ DestroyEnds(h) PROVE IInv'
  BY <1>2, HandlesPreserve
<1>3. CASE UNCHANGED vars
  BY <1>3, StutterPreserves
<1>4. QED
  BY <1>1, <1>2, <1>3 DEF Next

LEMMA InvariantHolds == Spec => []IInv
BY InitEstablishes, NextPreserves, PTL DEF Spec

-----------------------------------------------------------------------------

(* The variables of the store, the pools and the calls keep their types.   *)
THEOREM CallsAreTyped == Spec => []TypeOK
<1>1. IInv => TypeOK
  BY DEF IInv, Types
<1>2. QED
  BY <1>1, InvariantHolds, PTL

(* On a server no call ever runs inside the transaction of another, unless *)
(* a BEGIN, COMMIT or ROLLBACK was sent as a statement of its own.         *)
THEOREM ServersKeepTransactionsApart == Spec => []ServerTransactionsAreAlone
<1>1. IInv => ServerTransactionsAreAlone
  BY DEF IInv
<1>2. QED
  BY <1>1, InvariantHolds, PTL

(* What a call answered is what happened to its writes, in every dialect   *)
(* and whatever the other calls, destroy() and the databases do meanwhile: *)
(* all are committed if it succeeds; if it fails, a plain write and a      *)
(* transaction have left none, an import none of its rows, and a compound  *)
(* write (an INSERT read back, a write of many documents) for good what it *)
(* has carried out.                                                        *)
THEOREM AnswersAreOutcomes == Spec => []AnswersTellOutcome
<1>1. IInv => AnswersTellOutcome
  <2> SUFFICES ASSUME IInv, NEW c \in Call \ mixed
      PROVE  /\ /\ call[c].st = "answered" /\ call[c].finished # "rollback"
                /\ dialect = "postgresql" => ~call[c].caught
                => Written(c) \subseteq db.durable
             /\ call[c].st = "failed" =>
                  CASE call[c].kind = "import" -> <<c, 2>> \notin db.durable
                    [] call[c].kind = "compound" -> Written(c) \subseteq db.durable
                    [] OTHER -> call[c].finished = "no" =>
                          \A b \in Conn : Written(c) \cap (db.durable \cup db.dirty[b]) = {}
    BY DEF AnswersTellOutcome
  <2>1. /\ WritesAreKept(c) /\ call[c] \in CallRecord /\ db \in Database
        /\ call[c].st = "failed" /\ call[c].kind = "import" => Nowhere(c, <<c, 2>>)
    BY DEF IInv, Said, OutcomesAreTold, Types, TypeOK
  <2>2. call[c].finished \in {"no", "commit", "rollback"} /\ db.written \subseteq Write
    BY <2>1 DEF CallRecord, Database
  <2>3. ASSUME call[c].st = "answered", call[c].finished # "rollback",
               dialect = "postgresql" => ~call[c].caught
        PROVE  Written(c) \subseteq db.durable
    BY <2>1, <2>2, <2>3 DEF WritesAreKept, Written
  <2>4. ASSUME call[c].st = "failed", call[c].finished = "no", call[c].kind \notin {"import", "compound"},
               NEW b \in Conn
        PROVE  Written(c) \cap (db.durable \cup db.dirty[b]) = {}
    <3>1. \A w \in Write : Nowhere(c, w)
      BY <2>1, <2>4 DEF WritesAreKept
    <3>2. QED
      BY <2>2, <3>1 DEF Nowhere, Written
  <2>5. ASSUME call[c].st = "failed", call[c].kind = "import" PROVE <<c, 2>> \notin db.durable
    BY <2>1, <2>5 DEF Nowhere
  <2>6. ASSUME call[c].st = "failed", call[c].kind = "compound" PROVE Written(c) \subseteq db.durable
    BY <2>1, <2>2, <2>6 DEF WritesAreKept, Written
  <2>7. QED
    BY <2>3, <2>4, <2>5, <2>6
<1>2. QED
  BY <1>1, InvariantHolds, PTL

(* The store counts exactly those who were given the backend of a file and *)
(* have not given it back, unless two creations overlapped.                *)
THEOREM StoreCountsItsUsers == Spec => []StoreIsExact
<1>1. IInv => StoreIsExact
  <2> SUFFICES ASSUME IInv, File, ~raced
               PROVE  /\ entryRefs = Cardinality(BackendUsers)
                      /\ \A h \in Handle : promise[h] > 0 => promise[h] = entry /\ entry \in db.open
                      /\ entry = NoConn => db.open = {}
    BY DEF StoreIsExact
  <2>1. StoreCounts
    BY DEF IInv, Accounts
  <2>2. QED
    BY <2>1 DEF StoreCounts, NoConn
<1>2. QED
  BY <1>1, InvariantHolds, PTL

(* When every handle was destroyed and used no more, and all calls are     *)
(* over, no connection is open, of whichever dialect.                      *)
THEOREM NothingStaysOpen == Spec => []NothingLeaks
<1>1. IInv => NothingLeaks
  <2> SUFFICES ASSUME IInv, destroyed = (IF File THEN Handle ELSE Pooled), late = {}, ~raced,
                      \A c \in Call : Over(c), \A h \in Handle : inst[h] = 0
               PROVE  db.open = {}
    BY DEF NothingLeaks
  <2>1. Accounts /\ StoreIsKept /\ db \in Database
    BY DEF IInv, Types, TypeOK
  <2>2. /\ \A c \in Call, h \in Handle : ~Waits(c, h)
        /\ \A b : ~Tests(b)
        /\ \A c \in Call : call[c].st # "ready"
    BY DEF Over, Waits, Tests
  <2>3. \A h \in destroyed \cap Handle : ~(promise[h] > 0)
    BY <2>1, <2>2 DEF Accounts, StoreIsHeld
  <2>4. CASE File
    <3>1. BackendUsers = {}
      BY <2>2, <2>3, <2>4 DEF BackendUsers
    <3>2. entryRefs = 0
      BY <2>1, <2>4, <3>1, FS_EmptySet DEF Accounts, StoreCounts
    <3>3. entry = NoConn
      BY <2>1, <3>2 DEF StoreIsKept
    <3>4. QED
      BY <2>1, <2>4, <3>3 DEF Accounts, StoreCounts
  <2>5. CASE dialect = "memory"
    <3>1. ASSUME NEW b \in db.open PROVE FALSE
      <4>1. PICK h \in Handle : promise[h] = b
        BY <2>1, <2>2, <2>5 DEF Accounts, StoreIsHeld
      <4>2. b > 0 /\ b # NoConn
        BY <2>1 DEF Database, Conn, NoConn
      <4>3. h \in Pooled
        BY <2>1, <2>5, <4>1, <4>2 DEF Accounts, StoreIsHeld, File
      <4>4. QED
        BY <2>3, <2>5, <4>1, <4>2, <4>3 DEF File
    <3>2. QED
      BY <3>1
  <2>6. CASE ~Lite
    <3>1. ASSUME NEW b \in db.open PROVE FALSE
      <4>1. db.home[b] \in Instance
        BY <2>1 DEF Database
      <4>2. db.home[b] # <<NoHandle, 0>>
        BY <2>1, <2>2, <2>6 DEF Accounts, PoolsAreHeld
      <4>3. PICK h \in Handle : db.home[b][1] = h
        BY <4>1, <4>2 DEF Instance
      <4>4. QED
        BY <2>1, <2>6, <4>3 DEF Accounts, PoolsAreHeld
    <3>2. QED
      BY <3>1
  <2>7. QED
    BY <2>4, <2>5, <2>6 DEF Lite, File
<1>2. QED
  BY <1>1, InvariantHolds, PTL

-----------------------------------------------------------------------------
(* Isolation. To tell the phase of a call from its marks, and what it has  *)
(* in an open transaction, the invariant needs a little more: a call that  *)
(* has sent nothing has no transaction and no mark, only PostgreSQL breaks *)
(* transactions, where a function that goes on has not ended its own, a    *)
(* broken transaction is one the database has aborted, and one begun by a  *)
(* statement of its own stays empty as long as nobody shares it.           *)
Marked(c) ==
    /\ call[c].st \in Fresh => ~call[c].caught /\ \A b \in Conn : db.txOf[b] # c
    /\ call[c].caught => dialect = "postgresql"
    /\ Knex /\ call[c].st \in Within => call[c].finished = "no"
    /\ mixed = {} =>
         /\ call[c].caught /\ call[c].st \in Within /\ call[c].conn \in db.open
               => call[c].conn \in db.aborted
         /\ call[c].kind = "control" => \A b \in Conn : db.txOf[b] = c => db.dirty[b] = {}

AllMarked == \A c \in Call : Marked(c)

(* What a call has in an open transaction: that of its connection. *)
Owns(c) ==
    LET b == call[c].conn
    IN  IF call[c].st \in Within /\ call[c].finished = "no" /\ b \in db.open
        THEN b \in Conn /\ db.txOf[b] = c /\ Uncommitted(c) = db.dirty[b]
        ELSE Uncommitted(c) = {}

Owning == mixed = {} => \A c \in Call : Owns(c)

LEMMA CallsOwn == IInv /\ AllMarked => Owning
<1> SUFFICES ASSUME IInv, AllMarked, mixed = {}, NEW c \in Call PROVE Owns(c)
  BY DEF Owning
<1> DEFINE b == call[c].conn
<1>1. /\ CallIsGiven(c) /\ Marked(c) /\ WritesAreKept(c) /\ TransactionsAreOwned
      /\ db \in Database /\ b \in Conn \cup {NoConn} /\ c # NoCall
  BY ConnectionAssumption DEF IInv, Types, TypeOK, CallsAreGiven, AllMarked, Said, OutcomesAreTold,
        CallRecord, ConnectionAssumption
<1>2. CASE call[c].st \in Within /\ call[c].finished = "no" /\ b \in db.open
  <2>1. b \in Conn /\ db.txOf[b] = c /\ call[c].kind = "transaction"
    BY <1>1, <1>2 DEF WritesAreKept, CallIsGiven, Connected, Database
  <2>2. \A o \in Conn : db.txOf[o] = c <=> o = b
    BY <1>1, <2>1 DEF TransactionsAreOwned
  <2>3. Uncommitted(c) = db.dirty[b]
    BY <2>1, <2>2 DEF Uncommitted
  <2>4. QED
    BY <1>2, <2>1, <2>3 DEF Owns
<1>3. CASE ~(call[c].st \in Within /\ call[c].finished = "no" /\ b \in db.open)
  <2>1. \A o \in Conn : db.txOf[o] = c => db.dirty[o] = {}
    BY <1>1, <1>3 DEF TransactionsAreOwned, Marked
  <2>2. Uncommitted(c) = {}
    BY <2>1 DEF Uncommitted
  <2>3. QED
    BY <1>3, <2>2 DEF Owns
<1>4. QED
  BY <1>2, <1>3

LEMMA CallsOwnNext == (IInv /\ AllMarked)' => Owning'
BY CallsOwn, PTL

-----------------------------------------------------------------------------
(* Steps of the abstract specification, from what they do to a call.       *)

Kept(d) == PhaseOf(call[d])' = PhaseOf(call[d]) /\ Uncommitted(d)' = Uncommitted(d)

LEMMA TakesStep ==
    ASSUME NEW c \in Call, NEW p, NEW w, NEW e,
           PhaseOf(call[c])' = p, Uncommitted(c)' = w, db'.durable = db.durable \cup e,
           \A d \in Call \ {c} : Kept(d)
    PROVE  Isolated!Takes(c, p, w, e)
<1>1. [d \in Call |-> PhaseOf(call[d])]' = [[d \in Call |-> PhaseOf(call[d])] EXCEPT ![c] = p]
  BY DEF Kept
<1>2. [d \in Call |-> Uncommitted(d)]' = [[d \in Call |-> Uncommitted(d)] EXCEPT ![c] = w]
  BY DEF Kept
<1>3. QED
  BY <1>1, <1>2 DEF Isolated!Takes

LEMMA OwnWrites ==
    \A c \in Call : \A w \in Write : w[1] = c => w \in [d \in Call |-> {d} \X (1 .. 2)][c]
BY DEF Write

Passing(d) ==
    /\ PhaseOf(call[d])' \in Isolated!Phase
    /\ PhaseOf(call[d])' = PhaseOf(call[d]) \/ PhaseOf(call[d])' \in Isolated!Onward(PhaseOf(call[d]))
    /\ Uncommitted(d)' = IF PhaseOf(call[d])' = "lost" THEN {} ELSE Uncommitted(d)

LEMMA PassStep ==
    ASSUME \A d \in Call : Passing(d), db'.durable = db.durable
    PROVE  Isolated!ICNext
<1>1. Isolated!Pass
  BY DEF Passing, Isolated!Pass
<1>2. QED
  BY <1>1 DEF Isolated!ICNext

-----------------------------------------------------------------------------
(* Calm steps: calls go on for which nothing is written.                   *)

(* The mark stays, and only what writes nothing is answered. *)
Honest(d) ==
    \/ call'[d] = call[d]
    \/ /\ call'[d].caught = call[d].caught
       /\ call'[d].st = "answered" =>
             call[d].st \in Applied \/ (call[d].kind \in {"read", "test"} /\ call[d].st # "none")

LEMMA CalmConnections ==
    ASSUME Types, Calm
    PROVE  /\ db'.durable = db.durable
           /\ \A b \in Conn : /\ db'.txOf[b] \in {NoCall, db.txOf[b]}
                              /\ db'.txOf[b] # NoCall => db'.dirty[b] = db.dirty[b]
           /\ \A d \in Call : call[d].conn \in db'.open =>
                 /\ call[d].conn \in db.open
                 /\ call[d].conn \in db.aborted => call[d].conn \in db'.aborted
                 /\ db'.dirty[call[d].conn] = db.dirty[call[d].conn]
<1>1. db \in Database /\ db.made \in Nat /\ \A d \in Call : call[d].conn <= db.made
  BY DEF Types, TypeOK, CallsAreGiven, CallIsGiven, Database
<1>2. CASE Opens
  <2>1. \A d \in Call : call[d].conn # db'.made
    BY <1>1, <1>2 DEF Opens
  <2>2. QED
    BY <1>2, <2>1 DEF Opens
<1>3. CASE Closes
  BY <1>1, <1>3 DEF Closes, Database
<1>4. QED
  BY <1>2, <1>3 DEF Calm

LEMMA CalmMarks ==
    ASSUME IInv, AllMarked, Calm, \A d \in Call : Honest(d)
    PROVE  AllMarked'
<1> SUFFICES ASSUME NEW d \in Call PROVE Marked(d)'
  BY DEF AllMarked
<1>1. /\ Marked(d) /\ Honest(d) /\ Progresses(d) /\ CallIsGiven(d) /\ d # NoCall
      /\ dialect' = dialect /\ mixed' = mixed /\ Types
  BY ConnectionAssumption DEF AllMarked, Calm, IInv, Types, CallsAreGiven, ConnectionAssumption
<1>2. /\ \A b \in Conn : /\ db'.txOf[b] = d => db.txOf[b] = d /\ db'.dirty[b] = db.dirty[b]
      /\ call[d].conn \in db'.open =>
            /\ call[d].conn \in db.open
            /\ call[d].conn \in db.aborted => call[d].conn \in db'.aborted
  BY <1>1, CalmConnections
<1>3. call'[d].st \in Fresh => call[d].st \in Fresh /\ call'[d].caught = call[d].caught
  BY <1>1 DEF Progresses, Honest, Fresh, Within, Applied
<1>4. call'[d].caught = call[d].caught
  BY <1>1 DEF Honest
<1>5. call'[d].st \in Within => /\ call[d].st \in Within /\ call'[d].conn = call[d].conn
                                /\ call'[d].finished = call[d].finished
  BY <1>1 DEF Progresses, Fresh, Within, Applied
<1>6. call'[d].kind = "control" => call[d].kind = "control" \/ call[d].st = "none"
  BY <1>1 DEF Progresses
<1>7. QED
  BY <1>1, <1>2, <1>3, <1>4, <1>5, <1>6 DEF Marked, Knex, Fresh

LEMMA CalmIsolates ==
    ASSUME IInv, AllMarked, IInv', AllMarked', Calm, \A d \in Call : Honest(d), mixed' = {}
    PROVE  Isolated!ICNext
<1>1. ASSUME NEW d \in Call PROVE Passing(d)
  <2>1. /\ Marked(d) /\ Honest(d) /\ Progresses(d) /\ CallIsGiven(d) /\ Types
        /\ mixed = {} /\ call[d] \in CallRecord /\ call'[d] \in CallRecord
    BY <1>1 DEF AllMarked, Calm, IInv, Types, TypeOK, CallsAreGiven
  <2>2. Owns(d) /\ Owns(d)'
    BY <2>1, CallsOwn, CallsOwnNext DEF Owning
  <2>3. call[d].conn \in db'.open => /\ call[d].conn \in db.open
                                     /\ db'.dirty[call[d].conn] = db.dirty[call[d].conn]
    BY <2>1, CalmConnections
  <2>4. CASE call[d].st \in Within
    <3>1. /\ call'[d].st \in Within /\ call'[d].conn = call[d].conn
          /\ call'[d].finished = call[d].finished /\ call'[d].caught = call[d].caught
      BY <2>1, <2>4 DEF Progresses, Within, Fresh, Applied
    <3>2. CASE call[d].finished = "no" /\ call[d].conn \in db'.open
      <4>1. PhaseOf(call[d])' = PhaseOf(call[d]) /\ PhaseOf(call[d]) \in {"inside", "broken"}
        BY <2>3, <2>4, <3>1, <3>2 DEF PhaseOf, Within
      <4>2. Uncommitted(d)' = Uncommitted(d)
        BY <2>2, <2>3, <2>4, <3>1, <3>2 DEF Owns
      <4>3. QED
        BY <4>1, <4>2 DEF Passing, Isolated!Phase
    <3>3. CASE call[d].finished = "no" /\ call[d].conn \notin db'.open
      <4>1. PhaseOf(call[d])' = "lost" /\ PhaseOf(call[d]) \in {"inside", "broken", "lost"}
        BY <2>4, <3>1, <3>3 DEF PhaseOf, Within
      <4>2. Uncommitted(d)' = {}
        BY <2>2, <3>1, <3>3 DEF Owns
      <4>3. QED
        BY <4>1, <4>2 DEF Passing, Isolated!Phase, Isolated!Onward
    <3>4. CASE call[d].finished # "no"
      <4>1. PhaseOf(call[d])' = "ended" /\ PhaseOf(call[d]) = "ended"
        BY <2>4, <3>1, <3>4 DEF PhaseOf, Within
      <4>2. Uncommitted(d)' = {} /\ Uncommitted(d) = {}
        BY <2>2, <3>1, <3>4 DEF Owns
      <4>3. QED
        BY <4>1, <4>2 DEF Passing, Isolated!Phase
    <3>5. QED
      BY <3>2, <3>3, <3>4
  <2>5. CASE call[d].st \notin Within
    <3>1. call'[d].st \notin Within
      BY <2>1, <2>5 DEF Progresses, Within, Fresh, Applied
    <3>2. Uncommitted(d)' = {} /\ Uncommitted(d) = {}
      BY <2>2, <2>5, <3>1 DEF Owns
    <3>3. call[d].kind \in Isolated!Asked /\ call'[d].kind \in Isolated!Asked
      BY <2>1 DEF CallRecord, Kind, Isolated!Asked
    <3>4. call[d].st \in CallState
      BY <2>1 DEF CallRecord
    <3>5. CASE call'[d] = call[d]
      <4>1. PhaseOf(call[d])' = PhaseOf(call[d]) /\ PhaseOf(call[d]) \in Isolated!Phase
        BY <2>5, <3>3, <3>4, <3>5 DEF PhaseOf, Within, CallState, Isolated!Phase
      <4>2. QED
        BY <3>2, <4>1 DEF Passing
    <3>6. CASE call'[d] # call[d] /\ call[d].st \in Applied
      <4>1. /\ call'[d].st \in Applied \cup {"answered", "failed"}
            /\ ~call'[d].caught
        <5>1. call'[d].st \in Applied \cup {"answered", "failed"} /\ call'[d].caught = call[d].caught
          BY <2>1, <3>6 DEF Progresses, Within, Fresh, Applied
        <5>2. ~call[d].caught
          BY <2>1, <3>6 DEF CallIsGiven, Marked
        <5>3. QED
          BY <5>1, <5>2
      <4>2. PhaseOf(call[d]) = "applied"
        BY <3>6 DEF PhaseOf, Applied
      <4>3. PhaseOf(call[d])' \in {"applied", "succeeded", "failed"}
        BY <4>1 DEF PhaseOf, Applied
      <4>4. QED
        BY <3>2, <4>2, <4>3 DEF Passing, Isolated!Phase, Isolated!Onward
    <3>7. CASE call'[d] # call[d] /\ call[d].st \notin Applied
      <4>1. /\ call[d].st \in Fresh /\ call'[d].st \in {"waiting", "ready", "holding", "answered", "failed"}
            /\ call'[d].kind = call[d].kind \/ call[d].st = "none"
            /\ ~call'[d].caught
            /\ call'[d].st = "answered" => call[d].kind \in {"read", "test"} /\ call[d].st # "none"
        BY <2>1, <2>5, <3>7 DEF Progresses, Honest, Marked
      <4>2. PhaseOf(call[d]) = IF call[d].st = "none" THEN "idle" ELSE call[d].kind
        BY <4>1 DEF PhaseOf, Fresh
      <4>3. PhaseOf(call[d])' = IF call'[d].st = "answered" THEN "succeeded" ELSE
                                IF call'[d].st = "failed" THEN "failed" ELSE call'[d].kind
        BY <4>1 DEF PhaseOf
      <4>4. PhaseOf(call[d])' \in Isolated!Phase
        BY <3>3, <4>3 DEF Isolated!Phase
      <4>5. PhaseOf(call[d])' = PhaseOf(call[d]) \/ PhaseOf(call[d])' \in Isolated!Onward(PhaseOf(call[d]))
        BY <3>3, <4>1, <4>2, <4>3 DEF Isolated!Onward, Isolated!Asked
      <4>6. QED
        BY <3>2, <4>4, <4>5 DEF Passing
    <3>8. QED
      BY <3>5, <3>6, <3>7
  <2>6. QED
    BY <2>4, <2>5
<1>2. db'.durable = db.durable
  BY CalmConnections DEF IInv
<1>3. QED
  BY <1>1, <1>2, PassStep

(* The calm steps are honest. *)
LEMMA SameIsHonest ==
    ASSUME NEW c \in Call, OthersStay(c), Honest(c)
    PROVE  \A d \in Call : Honest(d)
BY DEF OthersStay, Honest

LEMMA StartsAreHonest ==
    ASSUME Types, NEW c \in Call, Starts(c)
    PROVE  \A d \in Call : Honest(d)
<1>1. TypeOK /\ call[c] \in CallRecord /\ call \in [Call -> CallRecord]
  BY DEF Types, TypeOK
<1>2. ASSUME NEW h \in Handle, NEW k \in kindsOf[c], StartLite(c, h, k) PROVE \A d \in Call : Honest(d)
  <2>1. OthersStay(c) /\ call'[c].st \in {"waiting", "failed"}
    BY <1>2, StartLiteStep
  <2>2. call'[c].caught = call[c].caught
    BY <1>1, <1>2 DEF StartLite, Settled, CallRecord
  <2>3. QED
    BY <2>1, <2>2, SameIsHonest DEF Honest
<1>3. ASSUME NEW h \in Handle, NEW k \in kindsOf[c], StartServer(c, h, k) PROVE \A d \in Call : Honest(d)
  <2>1. OthersStay(c) /\ call'[c].st \in {"waiting", "ready"}
    BY <1>3, StartServerStep
  <2>2. call'[c].caught = call[c].caught
    BY <1>1, <1>3 DEF StartServer, CallRecord
  <2>3. QED
    BY <2>1, <2>2, SameIsHonest DEF Honest
<1>4. CASE TestStarts(c)
  <2>1. OthersStay(c) /\ call'[c].st \in {"waiting", "ready"}
    BY <1>4, TestStartsStep
  <2>2. call'[c].caught = call[c].caught
    BY <1>1, <1>4 DEF TestStarts, CallRecord
  <2>3. QED
    BY <2>1, <2>2, SameIsHonest DEF Honest
<1>5. QED
  BY <1>2, <1>3, <1>4 DEF Starts

LEMMA QuietIsHonest ==
    ASSUME Types, NEW c \in Call, Quiet(c)
    PROVE  \A d \in Call : Honest(d)
<1>1. TypeOK /\ OthersStay(c)
  BY QuietSteps DEF Types, InPlace
<1>2. PICK s \in CallState : /\ Goes(c, s) \/ Ends(c, s)
                             /\ s = "answered" => \/ call[c].st \in Applied
                                                  \/ call[c].kind = "read" /\ call[c].st # "none"
  <2>1. CASE Connects(c)
    BY <2>1 DEF Connects, CallState
  <2>2. CASE AcquireFails(c)
    BY <2>2 DEF AcquireFails, CallState
  <2>3. CASE Probes(c)
    BY <2>3 DEF Probes, CallState
  <2>4. CASE ReadEnds(c)
    BY <2>4 DEF ReadEnds, HasConnection, CallState
  <2>5. CASE ProbeFails(c)
    BY <2>5 DEF ProbeFails, CallState
  <2>6. CASE RereadFails(c) \/ CompoundEnds(c)
    BY <2>6 DEF RereadFails, CompoundEnds, Applied, CallState
  <2>7. QED
    BY <2>1, <2>2, <2>3, <2>4, <2>5, <2>6 DEF Quiet
<1>3. call'[c].st = s /\ call'[c].caught = call[c].caught
  BY <1>1, <1>2, GoesFields, EndsFields
<1>4. QED
  BY <1>1, <1>2, <1>3, SameIsHonest DEF Honest

LEMMA ConnectionsAreHonest ==
    ASSUME Types, NEW c \in Call,
           \/ GetsBackend(c) \/ Acquires(c) \/ TxProbes(c) \/ ProbeAnswers(c)
           \/ RereadAsks(c) \/ RereadAnswers(c) \/ TestConnects(c) \/ TestEnds(c)
    PROVE  \A d \in Call : Honest(d)
<1>1. TypeOK /\ call[c] \in CallRecord /\ call \in [Call -> CallRecord]
  BY DEF Types, TypeOK
<1>2. /\ OthersStay(c)
      /\ call'[c].st = "answered" => call[c].kind = "test" /\ call[c].st = "ready"
  <2>1. CASE RereadAsks(c) \/ RereadAnswers(c)
    BY <2>1, RereadAsksStep, RereadAnswersStep
  <2>2. CASE ~(RereadAsks(c) \/ RereadAnswers(c))
    BY <2>2, GetsBackendStep, AcquiresStep, TxProbesStep, ProbeAnswersStep, TestConnectsStep, TestEndsStep
  <2>3. QED
    BY <2>1, <2>2
<1>3. call'[c].caught = call[c].caught
  <2>1. CASE GetsBackend(c) \/ ProbeAnswers(c) \/ RereadAnswers(c)
    <3>1. PICK s \in CallState : Goes(c, s)
      BY <2>1 DEF GetsBackend, ProbeAnswers, RereadAnswers, CallState
    <3>2. QED
      BY <1>1, <3>1, GoesFields
  <2>2. CASE Acquires(c)
    BY <1>1, <2>2 DEF Acquires, CallRecord
  <2>3. CASE TxProbes(c) \/ RereadAsks(c)
    <3>1. PICK s, m, g : call' = [call EXCEPT ![c] = [call[c] EXCEPT !.st = s, !.n = m, !.gen = g]]
      BY <2>3 DEF TxProbes, RereadAsks
    <3>2. QED
      BY <1>1, <3>1 DEF CallRecord
  <2>4. CASE TestConnects(c)
    <3>1. CASE Ends(c, "failed")
      BY <1>1, <3>1, EndsFields DEF CallState
    <3>2. CASE call' = [call EXCEPT ![c] = [@ EXCEPT !.st = "ready", !.conn = db'.made]]
      BY <1>1, <3>2 DEF CallRecord
    <3>3. QED
      BY <2>4, <3>1, <3>2 DEF TestConnects
  <2>5. CASE TestEnds(c)
    <3>1. PICK s \in CallState : Ends(c, s)
      BY <2>5 DEF TestEnds, CallState
    <3>2. QED
      BY <1>1, <3>1, EndsFields
  <2>6. QED
    BY <2>1, <2>2, <2>3, <2>4, <2>5
<1>4. QED
  BY <1>2, <1>3, SameIsHonest DEF Honest

LEMMA HandlesAreHonest ==
    ASSUME IInv, NEW h \in Handle, Settles(h) \/ Destroy(h) \/ DestroyEnds(h)
    PROVE  Calm /\ \A d \in Call : Honest(d)
<1>1. Types /\ HandlesAgree /\ call \in [Call -> CallRecord]
  BY DEF IInv, Types, TypeOK, Accounts
<1>2. CASE HandleOpens(h)
  <2>1. \A d \in Call : call'[d] = call[d] \/ call'[d] = [call[d] EXCEPT !.conn = db'.made]
    BY <1>2 DEF HandleOpens
  <2>2. \A d \in Call : call'[d] = call[d] \/ call'[d].st = "waiting"
    BY <1>1, <1>2, HandleOpensStep
  <2>3. \A d \in Call : call'[d].caught = call[d].caught
    BY <1>1, <2>1 DEF CallRecord
  <2>4. \A d \in Call : Honest(d)
    BY <2>2, <2>3 DEF Honest
  <2>5. QED
    BY <1>1, <1>2, <2>4, HandleOpensStep
<1>3. CASE HandleFails(h)
  <2>1. \A d \in Call : call'[d] = call[d] \/ call'[d] = Settled(call[d], "failed")
    BY <1>3 DEF HandleFails
  <2>2. \A d \in Call : call'[d] = call[d] \/ call'[d].st = "failed"
    BY <1>1, <1>3, HandleFailsStep
  <2>3. \A d \in Call : call'[d].caught = call[d].caught
    <3>1. \A r \in CallRecord : Settled(r, "failed").caught = r.caught
      BY DEF Settled, CallRecord
    <3>2. QED
      BY <1>1, <2>1, <3>1
  <2>4. \A d \in Call : Honest(d)
    BY <2>2, <2>3 DEF Honest
  <2>5. QED
    BY <1>1, <1>3, <2>4, HandleFailsStep
<1>4. CASE Destroy(h) \/ DestroyEnds(h)
  BY <1>1, <1>4, DestroyStep, DestroyEndsStep DEF Honest
<1>5. QED
  BY <1>2, <1>3, <1>4 DEF Settles

-----------------------------------------------------------------------------
(* Statements of call c on connection b: what belongs to the others stays, *)
(* unless c has shared the connection with their transaction.              *)
OnlyOwn(c, b) ==
    /\ TransactionsOf(c, b) /\ mixed \subseteq mixed'
    /\ \A o \in Conn \ {b} : o \in db'.aborted <=> o \in db.aborted
    /\ \/ db'.txOf = db.txOf /\ db'.dirty = db.dirty /\ db.aborted \subseteq db'.aborted
       \/ mixed' = {} => db.txOf[b] \in {NoCall, c}

LEMMA OthersKeep ==
    ASSUME NEW c \in Call, NEW b \in Conn, OnlyOwn(c, b), mixed' = {}
    PROVE  \A d \in Call \ {c} : Kept(d)
<1> SUFFICES ASSUME NEW d \in Call \ {c} PROVE Kept(d)
  OBVIOUS
<1>1. TransactionsOf(c, b) /\ call'[d] = call[d] /\ db'.open = db.open /\ d # NoCall
  BY ConnectionAssumption DEF OnlyOwn, TransactionsOf, InPlace, InPlaceOf, OthersStay, ConnectionAssumption
<1>2. PhaseOf(call[d])' = PhaseOf(call[d])
  BY <1>1 DEF PhaseOf
<1>3. \A o \in Conn : /\ db'.txOf[o] = d <=> db.txOf[o] = d
                      /\ db.txOf[o] = d => db'.dirty[o] = db.dirty[o]
  BY <1>1 DEF OnlyOwn, TransactionsOf
<1>4. Uncommitted(d)' = Uncommitted(d)
  <2>1. \A w : w \in Uncommitted(d) <=> \E o \in Conn : db.txOf[o] = d /\ w \in db.dirty[o]
    BY DEF Uncommitted
  <2>2. \A w : w \in Uncommitted(d)' <=> \E o \in Conn : db'.txOf[o] = d /\ w \in db'.dirty[o]
    BY DEF Uncommitted
  <2>3. \A w : w \in Uncommitted(d)' <=> w \in Uncommitted(d)
    BY <1>3, <2>1, <2>2
  <2>4. QED
    BY <2>3
<1>5. QED
  BY <1>2, <1>4 DEF Kept

LEMMA StatementMarks ==
    ASSUME IInv, AllMarked, NEW c \in Call, NEW b \in Conn, OnlyOwn(c, b), Marked(c)'
    PROVE  AllMarked'
<1> SUFFICES ASSUME NEW d \in Call \ {c} PROVE Marked(d)'
  BY DEF AllMarked
<1>1. /\ TransactionsOf(c, b) /\ call'[d] = call[d] /\ db'.open = db.open /\ dialect' = dialect
      /\ d # NoCall /\ Marked(d) /\ (mixed' = {} => mixed = {}) /\ Types
  BY ConnectionAssumption
     DEF OnlyOwn, TransactionsOf, InPlace, InPlaceOf, OthersStay, AllMarked, IInv, ConnectionAssumption
<1>2. \A o \in Conn : db'.txOf[o] = d => db.txOf[o] = d
  BY <1>1 DEF OnlyOwn, TransactionsOf
<1>3. ASSUME mixed' = {}, call[d].caught, call[d].st \in Within, call[d].conn \in db.open
      PROVE  call[d].conn \in db'.aborted
  <2>1. call[d].conn \in db.aborted /\ call[d].finished = "no"
    BY <1>1, <1>3 DEF Marked, Knex
  <2>2. db.txOf[call[d].conn] = d /\ call[d].conn \in Conn
    <3>1. WritesAreKept(d) /\ db \in Database
      BY <1>1, <1>3 DEF IInv, Said, OutcomesAreTold, Types, TypeOK
    <3>2. QED
      BY <1>3, <2>1, <3>1 DEF WritesAreKept, Database
  <2>3. QED
    BY <1>1, <1>3, <2>1, <2>2 DEF OnlyOwn
<1>4. ASSUME mixed' = {}, call[d].kind = "control", NEW o \in Conn, db'.txOf[o] = d
      PROVE  db'.dirty[o] = {}
  <2>1. db.txOf[o] = d /\ db.dirty[o] = {}
    BY <1>1, <1>2, <1>4 DEF Marked
  <2>2. QED
    BY <1>1, <1>4, <2>1 DEF OnlyOwn, TransactionsOf
<1>5. QED
  BY <1>1, <1>2, <1>3, <1>4 DEF Marked, Knex

(* A call that shares no connection has its own transaction there, or none. *)
LEMMA SharesNothing ==
    ASSUME Types, NEW c \in Call, NEW b \in Conn, mixed' = mixed \cup Mixing(c, b)
    PROVE  mixed \subseteq mixed' /\ (mixed' = {} => mixed = {} /\ db.txOf[b] \in {NoCall, c})
BY MixingTouches DEF Types

(* A statement that fails changes no transaction and nothing durable. *)
Refused == /\ db'.txOf = db.txOf /\ db'.dirty = db.dirty /\ db'.durable = db.durable
           /\ mixed' = mixed

LEMMA RefusedStep ==
    ASSUME Types, NEW b \in Conn, db' = db \/ db' = Fail(db, b, dialect), mixed' = mixed
    PROVE  /\ Refused /\ db.aborted \subseteq db'.aborted
           /\ \A o \in Conn \ {b} : o \in db'.aborted <=> o \in db.aborted
BY FailEffect DEF Refused, Types

LEMMA RefusedIsOwn ==
    ASSUME Types, NEW c \in Call, NEW b \in Conn, TransactionsOf(c, b),
           db' = db \/ db' = Fail(db, b, dialect), mixed' = mixed
    PROVE  OnlyOwn(c, b)
BY RefusedStep DEF OnlyOwn, Refused

LEMMA OthersPass ==
    ASSUME IInv', AllMarked', NEW c \in Call, NEW b \in Conn, OnlyOwn(c, b), mixed' = {},
           Uncommitted(c)' = Uncommitted(c),
           PhaseOf(call[c])' = PhaseOf(call[c]) \/ PhaseOf(call[c])' \in Isolated!Onward(PhaseOf(call[c]))
    PROVE  \A d \in Call : Passing(d)
<1> SUFFICES ASSUME NEW d \in Call PROVE Passing(d)
  OBVIOUS
<1>1. PhaseOf(call[d])' \in Isolated!Phase
  <2>1. call'[d] \in CallRecord
    BY DEF IInv, Types, TypeOK
  <2>2. QED
    BY <2>1 DEF CallRecord, CallState, Kind, PhaseOf, Isolated!Phase, Isolated!Asked
<1>2. d # c => Kept(d)
  BY OthersKeep
<1>3. PhaseOf(call[d])' = "lost" => Uncommitted(d)' = {}
  <2>1. Owns(d)'
    BY CallsOwnNext DEF Owning
  <2>2. PhaseOf(call[d])' = "lost" => ~(call'[d].st \in Within /\ call'[d].finished = "no"
                                         /\ call'[d].conn \in db'.open)
    BY DEF PhaseOf, Within
  <2>3. QED
    BY <2>1, <2>2 DEF Owns
<1>4. QED
  BY <1>1, <1>2, <1>3 DEF Passing, Kept

LEMMA RefusedPasses ==
    ASSUME IInv', AllMarked', NEW c \in Call, NEW b \in Conn, OnlyOwn(c, b), Refused, mixed' = {},
           PhaseOf(call[c])' = PhaseOf(call[c]) \/ PhaseOf(call[c])' \in Isolated!Onward(PhaseOf(call[c]))
    PROVE  Isolated!ICNext
<1>1. Uncommitted(c)' = Uncommitted(c)
  BY DEF Refused, Uncommitted
<1>2. QED
  BY <1>1, OthersPass, PassStep DEF Refused

LEMMA WriteIsolates ==
    ASSUME IInv, AllMarked, IInv', NEW c \in Call, WriteEnds(c)
    PROVE  AllMarked' /\ (mixed' = {} => Isolated!ICNext)
<1> DEFINE b == call[c].conn
<1>1. /\ InPlace(c) /\ b \in Conn /\ call[c].st \in Fresh /\ call'[c].caught = call[c].caught
      /\ call[c].kind = "write" /\ call'[c].kind = "write" /\ call[c].st # "none"
      /\ call'[c].st \in {"answered", "failed"}
      /\ \/ /\ CanWrite(db, b, dialect) /\ db' = Exec(db, b, <<c, 1>>)
            /\ mixed' = mixed \cup Mixing(c, b) /\ call'[c].st = "answered"
         \/ db' = Fail(db, b, dialect) /\ mixed' = mixed /\ call'[c].st = "failed"
  BY WriteStep DEF IInv, WriteEnds, InPlace, HasConnection, Over
<1>2. /\ Types /\ TypeOK /\ TransactionsOf(c, b) /\ Marked(c) /\ <<c, 1>> \in Write /\ dialect' = dialect
  BY <1>1, WriteSays DEF IInv, Types, AllMarked, Write, InPlace
<1>3. Marked(c)'
  BY <1>1, <1>2 DEF Marked, Fresh, Within
<1>4. PhaseOf(call[c]) = "write" /\ PhaseOf(call[c])' = IF call'[c].st = "answered" THEN "succeeded" ELSE "failed"
  BY <1>1, <1>2 DEF PhaseOf, Fresh, Marked
<1> HIDE DEF b
<1>5. CASE db' = Fail(db, b, dialect) /\ mixed' = mixed /\ call'[c].st = "failed"
  <2>1. OnlyOwn(c, b) /\ Refused
    BY <1>1, <1>2, <1>5, RefusedIsOwn, RefusedStep
  <2>2. AllMarked'
    BY <1>1, <1>3, <2>1, StatementMarks
  <2>3. PhaseOf(call[c])' \in Isolated!Onward(PhaseOf(call[c]))
    BY <1>4, <1>5 DEF Isolated!Onward
  <2>4. QED
    BY <1>1, <2>1, <2>2, <2>3, RefusedPasses
<1>6. CASE /\ CanWrite(db, b, dialect) /\ db' = Exec(db, b, <<c, 1>>)
           /\ mixed' = mixed \cup Mixing(c, b) /\ call'[c].st = "answered"
  <2>1. mixed \subseteq mixed' /\ (mixed' = {} => mixed = {} /\ db.txOf[b] \in {NoCall, c})
    BY <1>1, <1>2, <1>6, SharesNothing
  <2>2. db'.aborted = db.aborted /\ (db.txOf[b] = NoCall => db'.durable = db.durable \cup {<<c, 1>>})
    BY <1>1, <1>2, <1>6, ExecEffect
  <2>3. OnlyOwn(c, b)
    BY <1>2, <2>1, <2>2 DEF OnlyOwn
  <2>4. AllMarked'
    BY <1>1, <1>3, <2>3, StatementMarks
  <2>5. ASSUME mixed' = {} PROVE Isolated!ICNext
    <3>1. db'.durable = db.durable \cup {<<c, 1>>}
      BY <1>1, <1>2, <2>1, <2>2, <2>5 DEF Marked
    <3>2. Uncommitted(c)' = {}
      BY <1>1, <2>4, <2>5, CallsOwnNext DEF Owning, Owns, Within
    <3>3. Isolated!Takes(c, "succeeded", {}, {<<c, 1>>})
      BY <1>1, <1>4, <1>6, <2>3, <2>5, <3>1, <3>2, OthersKeep, TakesStep
    <3>4. Isolated!WritesAlone(c)
      BY <1>2, <1>4, <3>3, OwnWrites DEF Isolated!WritesAlone
    <3>5. QED
      BY <3>4 DEF Isolated!ICNext
  <2>6. QED
    BY <2>4, <2>5
<1>7. QED
  BY <1>1, <1>5, <1>6

(* What MySQL commits when another transaction begins, if there was none.  *)
LEMMA BeginsEmpty ==
    ASSUME TypeOK, NEW b \in Conn, NEW c \in Call, db' = Begin(db, b, c, dialect)
    PROVE  /\ db'.txOf = [db.txOf EXCEPT ![b] = c]
           /\ \A o \in Conn \ {b} : o \in db'.aborted <=> o \in db.aborted
           /\ db.dirty[b] = {} => db'.dirty = db.dirty /\ db'.durable = db.durable
<1>1. db.dirty[b] = {} => [db.dirty EXCEPT ![b] = {}] = db.dirty /\ db.durable \cup db.dirty[b] = db.durable
  BY DEF TypeOK, Database
<1>2. CASE dialect = "mysql"
  BY <1>1, <1>2, BeginEffect
<1>3. CASE dialect # "mysql"
  BY <1>3, BeginEffect
<1>4. QED
  BY <1>2, <1>3

LEMMA ControlIsolates ==
    ASSUME IInv, AllMarked, IInv', NEW c \in Call, ControlPasses(c)
    PROVE  AllMarked' /\ (mixed' = {} => Isolated!ICNext)
<1> DEFINE b == call[c].conn
<1>1. /\ InPlace(c) /\ b \in Conn /\ call[c].st \in Fresh /\ call'[c].caught = call[c].caught
      /\ call[c].kind = "control" /\ call'[c].kind = "control" /\ call[c].st # "none"
      /\ call'[c].st \in {"answered", "failed"}
      /\ \/ /\ CanBegin(db, b, dialect) /\ db' = Begin(db, b, c, dialect)
            /\ mixed' = mixed \cup Mixing(c, b) /\ call'[c].st = "answered"
         \/ /\ b \in db.open /\ db.txOf[b] # NoCall
            /\ db' = Commit(db, b) \/ db' = Rollback(db, b)
            /\ mixed' = mixed \cup Mixing(c, b) /\ call'[c].st = "answered"
         \/ db' = Fail(db, b, dialect) /\ mixed' = mixed /\ call'[c].st = "failed"
  BY ControlStep DEF IInv, ControlPasses, InPlace, HasConnection, Over
<1>2. /\ Types /\ TypeOK /\ TransactionsOf(c, b) /\ Marked(c) /\ dialect' = dialect
      /\ TransactionsAreOwned /\ db \in Database /\ NoCall # c
  BY <1>1, ControlSays, ConnectionAssumption
     DEF IInv, Types, TypeOK, AllMarked, InPlace, Said, ConnectionAssumption
<1>3. PhaseOf(call[c]) = "control" /\ PhaseOf(call[c])' = IF call'[c].st = "answered" THEN "succeeded" ELSE "failed"
  BY <1>1, <1>2 DEF PhaseOf, Fresh, Marked
<1>4. PhaseOf(call[c])' \in Isolated!Onward(PhaseOf(call[c]))
  BY <1>1, <1>3 DEF Isolated!Onward
<1> HIDE DEF b
<1>5. CASE db' = Fail(db, b, dialect) /\ mixed' = mixed /\ call'[c].st = "failed"
  <2>1. OnlyOwn(c, b) /\ Refused
    BY <1>1, <1>2, <1>5, RefusedIsOwn, RefusedStep
  <2>2. Marked(c)'
    BY <1>1, <1>2, <1>5, <2>1 DEF Marked, Fresh, Within, Refused
  <2>3. AllMarked'
    BY <1>1, <2>1, <2>2, StatementMarks
  <2>4. QED
    BY <1>1, <1>4, <2>1, <2>3, RefusedPasses
<1>6. CASE /\ CanBegin(db, b, dialect) /\ db' = Begin(db, b, c, dialect)
           /\ mixed' = mixed \cup Mixing(c, b) /\ call'[c].st = "answered"
  <2>1. /\ mixed \subseteq mixed' /\ (mixed' = {} => mixed = {} /\ db.txOf[b] = NoCall)
        /\ db.txOf[b] = NoCall => db.dirty[b] = {}
    BY <1>1, <1>2, <1>6, SharesNothing DEF Marked, TransactionsAreOwned
  <2>2. /\ db'.txOf = [db.txOf EXCEPT ![b] = c]
        /\ \A o \in Conn \ {b} : o \in db'.aborted <=> o \in db.aborted
        /\ db.dirty[b] = {} => db'.dirty = db.dirty /\ db'.durable = db.durable
    BY <1>1, <1>2, <1>6, BeginsEmpty
  <2>3. OnlyOwn(c, b)
    BY <1>2, <2>1, <2>2 DEF OnlyOwn
  <2>4. Marked(c)'
    <3>1. ASSUME mixed' = {}, NEW o \in Conn, db'.txOf[o] = c PROVE db'.dirty[o] = {}
      <4>1. o = b
        BY <1>1, <1>2, <2>2, <3>1 DEF Marked, Database
      <4>2. QED
        BY <2>1, <2>2, <3>1, <4>1
    <3>2. QED
      BY <1>1, <1>2, <3>1 DEF Marked, Fresh, Within
  <2>5. AllMarked'
    BY <1>1, <2>3, <2>4, StatementMarks
  <2>6. ASSUME mixed' = {} PROVE Isolated!ICNext
    <3>1. Uncommitted(c)' = {} /\ Uncommitted(c) = {}
      BY <1>1, <2>1, <2>5, <2>6, CallsOwn, CallsOwnNext DEF Owning, Owns, Within, Fresh
    <3>2. \A d \in Call : Passing(d)
      BY <1>1, <1>4, <2>3, <2>5, <2>6, <3>1, OthersPass
    <3>3. QED
      BY <2>1, <2>2, <2>6, <3>2, PassStep
  <2>7. QED
    BY <2>5, <2>6
<1>7. CASE /\ b \in db.open /\ db.txOf[b] # NoCall
           /\ db' = Commit(db, b) \/ db' = Rollback(db, b)
           /\ mixed' = mixed \cup Mixing(c, b) /\ call'[c].st = "answered"
  <2>1. mixed \subseteq mixed' /\ mixed' # {}
    BY <1>1, <1>2, <1>7, SharesNothing DEF Marked
  <2>2. \A o \in Conn \ {b} : o \in db'.aborted <=> o \in db.aborted
    BY <1>1, <1>2, <1>7, CommitEffect, RollbackEffect
  <2>3. OnlyOwn(c, b) /\ Marked(c)'
    BY <1>1, <1>2, <2>1, <2>2 DEF OnlyOwn, Marked, Fresh, Within
  <2>4. QED
    BY <1>1, <2>1, <2>3, StatementMarks
<1>8. QED
  BY <1>1, <1>5, <1>6, <1>7

LEMMA BeginIsolates ==
    ASSUME IInv, AllMarked, IInv', NEW c \in Call, TxBegins(c)
    PROVE  AllMarked' /\ (mixed' = {} => Isolated!ICNext)
<1> DEFINE b == call[c].conn
<1>1. /\ InPlace(c) /\ b \in Conn /\ call[c].st \in Fresh /\ call'[c].caught = call[c].caught
      /\ call[c].kind = "transaction" /\ call'[c].kind = "transaction" /\ call[c].st # "none"
      /\ call'[c].finished = call[c].finished /\ call[c].finished = "no"
      /\ \/ /\ CanBegin(db, b, dialect) /\ db' = Begin(db, b, c, dialect)
            /\ mixed' = mixed \cup Mixing(c, b)
            /\ call'[c].st = "running" /\ call'[c].conn = b
         \/ db' = db /\ mixed' = mixed /\ call'[c].st = "failed"
  BY TxBeginStep DEF IInv, Types, CallsAreGiven, CallIsGiven, TxBegins, InPlace, HasConnection, Over
<1>2. /\ Types /\ TypeOK /\ TransactionsOf(c, b) /\ Marked(c) /\ dialect' = dialect
      /\ TransactionsAreOwned /\ db \in Database /\ NoCall # c /\ db'.open = db.open
  BY <1>1, TxBeginSays, ConnectionAssumption
     DEF IInv, Types, TypeOK, AllMarked, InPlace, InPlaceOf, Said, ConnectionAssumption
<1>3. PhaseOf(call[c]) = "transaction" /\ ~call'[c].caught
  BY <1>1, <1>2 DEF PhaseOf, Fresh, Marked
<1>4. Marked(c)'
  BY <1>1, <1>2, <1>3 DEF Marked, Fresh, Within
<1> HIDE DEF b
<1>5. CASE db' = db /\ mixed' = mixed /\ call'[c].st = "failed"
  <2>1. OnlyOwn(c, b) /\ Refused
    BY <1>1, <1>2, <1>5, RefusedIsOwn, RefusedStep
  <2>2. AllMarked'
    BY <1>1, <1>4, <2>1, StatementMarks
  <2>3. PhaseOf(call[c])' \in Isolated!Onward(PhaseOf(call[c]))
    BY <1>3, <1>5 DEF Isolated!Onward, PhaseOf
  <2>4. QED
    BY <1>1, <2>1, <2>2, <2>3, RefusedPasses
<1>6. CASE /\ CanBegin(db, b, dialect) /\ db' = Begin(db, b, c, dialect)
           /\ mixed' = mixed \cup Mixing(c, b)
           /\ call'[c].st = "running" /\ call'[c].conn = b
  <2>1. /\ mixed \subseteq mixed' /\ (mixed' = {} => mixed = {} /\ db.txOf[b] = NoCall)
        /\ db.txOf[b] = NoCall => db.dirty[b] = {}
    BY <1>1, <1>2, <1>6, SharesNothing DEF Marked, TransactionsAreOwned
  <2>2. /\ \A o \in Conn \ {b} : o \in db'.aborted <=> o \in db.aborted
        /\ db.dirty[b] = {} => db'.dirty = db.dirty /\ db'.durable = db.durable
    BY <1>1, <1>2, <1>6, BeginsEmpty
  <2>3. OnlyOwn(c, b)
    BY <1>2, <2>1, <2>2 DEF OnlyOwn
  <2>4. AllMarked'
    BY <1>1, <1>4, <2>3, StatementMarks
  <2>5. ASSUME mixed' = {} PROVE Isolated!ICNext
    <3>1. b \in db.open
      BY <1>6 DEF CanBegin, CanWrite
    <3>2. PhaseOf(call[c])' = "inside"
      BY <1>1, <1>2, <1>3, <1>6, <3>1 DEF PhaseOf
    <3>3. Uncommitted(c)' = {}
      BY <1>1, <1>2, <1>6, <2>1, <2>2, <2>4, <2>5, <3>1, CallsOwnNext DEF Owning, Owns, Within
    <3>4. db'.durable = db.durable \cup {}
      BY <2>1, <2>2, <2>5
    <3>5. Isolated!Takes(c, "inside", {}, {})
      BY <1>1, <2>3, <2>5, <3>2, <3>3, <3>4, OthersKeep, TakesStep
    <3>6. QED
      BY <1>3, <3>5 DEF Isolated!ICNext, Isolated!Begins
  <2>6. QED
    BY <2>4, <2>5
<1>7. QED
  BY <1>1, <1>5, <1>6

LEMMA TxWriteIsolates ==
    ASSUME IInv, AllMarked, IInv', NEW c \in Call, TxWrites(c)
    PROVE  AllMarked' /\ (mixed' = {} => Isolated!ICNext)
<1> DEFINE b == call[c].conn
<1>1. /\ InPlace(c) /\ b \in Conn /\ call[c].st = "running"
      /\ call'[c].st = "running" /\ call'[c].conn = b
      /\ call'[c].finished = call[c].finished
      /\ call[c].kind = "transaction" /\ call'[c].kind = "transaction"
      /\ \/ /\ CanWrite(db, b, dialect) /\ call'[c].caught = call[c].caught
            /\ \E w \in Write : w[1] = c /\ db' = Exec(db, b, w)
            /\ mixed' = mixed \cup Mixing(c, b)
         \/ /\ dialect = "postgresql" /\ call'[c].caught
            /\ db' = Fail(db, b, dialect) /\ mixed' = mixed
  BY TxWriteStep, InTxHas DEF IInv, TxWrites, Statement, InPlace
<1>2. /\ Types /\ TypeOK /\ TransactionsOf(c, b) /\ Marked(c) /\ dialect' = dialect
      /\ TransactionsAreOwned /\ db \in Database /\ NoCall # c /\ db'.open = db.open
  BY <1>1, TxWriteSays, ConnectionAssumption
     DEF IInv, Types, TypeOK, AllMarked, InPlace, InPlaceOf, Said, ConnectionAssumption
<1>3. mixed = {} => Owns(c)
  BY CallsOwn DEF Owning
<1> HIDE DEF b
<1>4. CASE /\ dialect = "postgresql" /\ call'[c].caught
           /\ db' = Fail(db, b, dialect) /\ mixed' = mixed
  <2>1. /\ OnlyOwn(c, b) /\ Refused /\ call[c].finished = "no"
        /\ db'.aborted = IF db.txOf[b] # NoCall THEN db.aborted \cup {b} ELSE db.aborted
    BY <1>1, <1>2, <1>4, RefusedIsOwn, RefusedStep, FailEffect DEF Marked, Knex, Within
  <2>2. mixed = {} /\ b \in db.open => db.txOf[b] = c
    BY <1>1, <1>3, <2>1 DEF Owns, Within, b
  <2>3. Marked(c)'
    BY <1>1, <1>2, <1>4, <2>1, <2>2 DEF Marked, Fresh, Within
  <2>4. AllMarked'
    BY <1>1, <2>1, <2>3, StatementMarks
  <2>5. ASSUME mixed' = {} PROVE Isolated!ICNext
    <3>1. Uncommitted(c)' = Uncommitted(c)
      BY <2>1 DEF Refused, Uncommitted
    <3>2. CASE b \notin db.open
      <4>1. PhaseOf(call[c])' = PhaseOf(call[c])
        BY <1>1, <1>2, <2>1, <3>2 DEF PhaseOf, b
      <4>2. QED
        BY <1>1, <2>1, <2>4, <2>5, <4>1, RefusedPasses
    <3>3. CASE b \in db.open
      <4>1. PhaseOf(call[c])' = "broken" /\ PhaseOf(call[c]) \in {"inside", "broken"}
        BY <1>1, <1>2, <1>4, <2>1, <3>3 DEF PhaseOf, b
      <4>2. db'.durable = db.durable \cup {}
        BY <2>1 DEF Refused
      <4>3. Isolated!Takes(c, "broken", Uncommitted(c), {})
        BY <1>1, <2>1, <2>5, <3>1, <4>1, <4>2, OthersKeep, TakesStep
      <4>4. Isolated!Breaks(c)
        BY <4>1, <4>3 DEF Isolated!Breaks
      <4>5. QED
        BY <4>4 DEF Isolated!ICNext
    <3>4. QED
      BY <3>2, <3>3
  <2>6. QED
    BY <2>4, <2>5
<1>5. ASSUME NEW w \in Write, w[1] = c, CanWrite(db, b, dialect), call'[c].caught = call[c].caught,
             db' = Exec(db, b, w), mixed' = mixed \cup Mixing(c, b)
      PROVE  AllMarked' /\ (mixed' = {} => Isolated!ICNext)
  <2>1. mixed \subseteq mixed' /\ (mixed' = {} => mixed = {} /\ db.txOf[b] \in {NoCall, c})
    BY <1>1, <1>2, <1>5, SharesNothing
  <2>2. /\ db'.txOf = db.txOf /\ db'.aborted = db.aborted
        /\ db'.dirty = IF db.txOf[b] = NoCall THEN db.dirty ELSE [db.dirty EXCEPT ![b] = @ \cup {w}]
        /\ db'.durable = IF db.txOf[b] = NoCall THEN db.durable \cup {w} ELSE db.durable
    BY <1>1, <1>2, <1>5, ExecEffect
  <2>3. OnlyOwn(c, b)
    BY <1>2, <2>1, <2>2 DEF OnlyOwn
  <2>4. Marked(c)'
    BY <1>1, <1>2, <1>5, <2>1, <2>2 DEF Marked, Fresh, Within, Knex, b
  <2>5. AllMarked'
    BY <1>1, <2>3, <2>4, StatementMarks
  <2>6. ASSUME mixed' = {} PROVE Isolated!ICNext
    <3>0. b \in db.open /\ b \notin db.aborted
      BY <1>5 DEF CanWrite
    <3>1. Owns(c) /\ Owns(c)'
      BY <1>3, <2>1, <2>5, <2>6, CallsOwnNext DEF Owning
    <3>2. CASE call[c].finished = "no"
      <4>1. ~call[c].caught
        BY <1>1, <1>2, <2>1, <2>6, <3>0 DEF Marked, Within, b
      <4>2. PhaseOf(call[c])' = "inside" /\ PhaseOf(call[c]) = "inside"
        BY <1>1, <1>2, <1>5, <3>0, <3>2, <4>1 DEF PhaseOf, b
      <4>3. db.txOf[b] = c /\ Uncommitted(c) = db.dirty[b] /\ Uncommitted(c)' = db'.dirty[b]
        BY <1>1, <1>2, <3>0, <3>1, <3>2 DEF Owns, Within, b
      <4>4. Uncommitted(c)' = Uncommitted(c) \cup {w} /\ db'.durable = db.durable \cup {}
        BY <1>1, <1>2, <2>2, <4>3 DEF Database
      <4>5. Isolated!Takes(c, "inside", Uncommitted(c) \cup {w}, {})
        BY <1>1, <2>3, <2>6, <4>2, <4>4, OthersKeep, TakesStep
      <4>6. Isolated!Writes(c)
        BY <1>5, <4>2, <4>5, OwnWrites DEF Isolated!Writes
      <4>7. QED
        BY <4>6 DEF Isolated!ICNext
    <3>3. CASE call[c].finished # "no"
      <4>1. PhaseOf(call[c])' = "ended" /\ PhaseOf(call[c]) = "ended"
        BY <1>1, <3>3 DEF PhaseOf
      <4>2. Uncommitted(c)' = {}
        BY <1>1, <3>1, <3>3 DEF Owns
      <4>3. db.txOf[b] = NoCall
        BY <1>1, <1>2, <2>1, <2>6, <3>3 DEF TransactionsAreOwned
      <4>4. db'.durable = db.durable \cup {w}
        BY <2>2, <4>3
      <4>5. Isolated!Takes(c, "ended", {}, {w})
        BY <1>1, <2>3, <2>6, <4>1, <4>2, <4>4, OthersKeep, TakesStep
      <4>6. Isolated!WritesAlone(c)
        BY <1>5, <4>1, <4>5, OwnWrites DEF Isolated!WritesAlone
      <4>7. QED
        BY <4>6 DEF Isolated!ICNext
    <3>4. QED
      BY <3>2, <3>3
  <2>7. QED
    BY <2>5, <2>6
<1>6. QED
  BY <1>1, <1>4, <1>5

(* A transaction ends, with a COMMIT or a ROLLBACK. *)
LEMMA EndIsolates ==
    ASSUME IInv, AllMarked, IInv', NEW c \in Call, NEW b \in Conn, b = call[c].conn,
           TransactionsOf(c, b), call[c].st = "running", call[c].finished = "no",
           call[c].kind = "transaction", b \in db.open,
           mixed' = mixed \cup Mixing(c, b), call'[c].caught = call[c].caught,
           call'[c].st = "running" => ~Knex,
           \/ /\ db' = Commit(db, b)
              /\ call'[c].st = "answered" \/ (call'[c].st = "running" /\ call'[c].finished = "commit")
           \/ /\ db' = Rollback(db, b)
              /\ call'[c].st = "failed" \/ (call'[c].st = "running" /\ call'[c].finished = "rollback")
    PROVE  AllMarked' /\ (mixed' = {} => Isolated!ICNext)
<1>1. /\ Types /\ TypeOK /\ Marked(c) /\ dialect' = dialect /\ db'.open = db.open
      /\ db \in Database /\ call'[c].kind = "transaction" /\ OutcomesAreTold
  BY DEF IInv, Types, TypeOK, AllMarked, TransactionsOf, InPlace, InPlaceOf, Said
<1>2. mixed \subseteq mixed' /\ (mixed' = {} => mixed = {} /\ db.txOf[b] \in {NoCall, c})
  BY <1>1, SharesNothing
<1>3. /\ db'.aborted = db.aborted \ {b}
      /\ db' = Commit(db, b) => db'.durable = IF b \in db.aborted THEN db.durable ELSE db.durable \cup db.dirty[b]
      /\ db' = Rollback(db, b) => db'.durable = db.durable
  BY <1>1, CommitEffect, RollbackEffect
<1>4. OnlyOwn(c, b)
  BY <1>2, <1>3 DEF OnlyOwn
<1>5. Marked(c)'
  BY <1>1 DEF Marked, Fresh, Within, Knex
<1>6. AllMarked'
  BY <1>4, <1>5, StatementMarks
<1>7. ASSUME mixed' = {} PROVE Isolated!ICNext
  <2>1. Owns(c) /\ Owns(c)'
    BY <1>2, <1>6, <1>7, CallsOwn, CallsOwnNext DEF Owning
  <2>2. db.txOf[b] = c /\ Uncommitted(c) = db.dirty[b] /\ Uncommitted(c)' = {}
    BY <2>1 DEF Owns, Within
  <2>3. PhaseOf(call[c]) = IF call[c].caught THEN "broken" ELSE "inside"
    BY DEF PhaseOf
  <2>4. call[c].caught <=> b \in db.aborted
    BY <1>1, <1>2, <1>7, <2>2 DEF Marked, Within, OutcomesAreTold
  <2>5. CASE /\ db' = Rollback(db, b)
             /\ call'[c].st = "failed" \/ (call'[c].st = "running" /\ call'[c].finished = "rollback")
    <3>1. PICK p \in {"failed", "ended"} : PhaseOf(call[c])' = p
      BY <1>1, <2>5 DEF PhaseOf
    <3>2. db'.durable = db.durable \cup {}
      BY <1>3, <2>5
    <3>3. Isolated!Takes(c, p, {}, {})
      BY <1>4, <1>7, <2>2, <3>1, <3>2, OthersKeep, TakesStep
    <3>4. Isolated!Undoes(c)
      BY <2>3, <3>3 DEF Isolated!Undoes
    <3>5. QED
      BY <3>4 DEF Isolated!ICNext
  <2>6. CASE /\ db' = Commit(db, b) /\ ~call[c].caught
             /\ call'[c].st = "answered" \/ (call'[c].st = "running" /\ call'[c].finished = "commit")
    <3>1. PICK p \in {"succeeded", "ended"} : PhaseOf(call[c])' = p
      BY <1>1, <2>6 DEF PhaseOf
    <3>2. db'.durable = db.durable \cup Uncommitted(c)
      BY <1>3, <2>2, <2>4, <2>6
    <3>3. Isolated!Takes(c, p, {}, Uncommitted(c))
      BY <1>4, <1>7, <2>2, <3>1, <3>2, OthersKeep, TakesStep
    <3>4. Isolated!Commits(c)
      BY <2>3, <2>6, <3>3 DEF Isolated!Commits
    <3>5. QED
      BY <3>4 DEF Isolated!ICNext
  <2>7. CASE /\ db' = Commit(db, b) /\ call[c].caught
             /\ call'[c].st = "answered" \/ (call'[c].st = "running" /\ call'[c].finished = "commit")
    <3>1. PhaseOf(call[c])' = "dropped"
      BY <1>1, <2>7 DEF PhaseOf, Marked, Knex
    <3>2. db'.durable = db.durable \cup {}
      BY <1>3, <2>4, <2>7
    <3>3. Isolated!Takes(c, "dropped", {}, {})
      BY <1>4, <1>7, <2>2, <3>1, <3>2, OthersKeep, TakesStep
    <3>4. Isolated!Drops(c)
      BY <2>3, <2>7, <3>3 DEF Isolated!Drops
    <3>5. QED
      BY <3>4 DEF Isolated!ICNext
  <2>8. QED
    BY <2>5, <2>6, <2>7
<1>8. QED
  BY <1>6, <1>7


(* The database stays as it is, and the function has nothing open.         *)
LEMMA QuietEndIsolates ==
    ASSUME IInv, AllMarked, IInv', NEW c \in Call, NEW b \in Conn, b = call[c].conn,
           TransactionsOf(c, b), call[c].st = "running", call[c].kind = "transaction",
           db' = db, mixed' = mixed, call'[c].caught = call[c].caught,
           call[c].finished = "no" => b \notin db.open \/ db.txOf[b] = NoCall,
           call'[c].st = "failed" \/ (call'[c].st = "answered" /\ call[c].finished # "no")
    PROVE  AllMarked' /\ (mixed' = {} => Isolated!ICNext)
<1>1. /\ Types /\ Marked(c) /\ dialect' = dialect /\ call'[c].kind = "transaction" /\ NoCall # c
  BY ConnectionAssumption DEF IInv, AllMarked, TransactionsOf, InPlace, ConnectionAssumption
<1>2. OnlyOwn(c, b) /\ Refused
  BY <1>1, RefusedIsOwn, RefusedStep
<1>3. Marked(c)'
  BY <1>1 DEF Marked, Fresh, Within
<1>4. AllMarked'
  BY <1>2, <1>3, StatementMarks
<1>5. ASSUME mixed' = {} PROVE Isolated!ICNext
  <2>1. call[c].finished = "no" => b \notin db.open
    BY <1>1, <1>5, CallsOwn DEF Owning, Owns, Within
  <2>2. PhaseOf(call[c]) = IF call[c].finished = "no" THEN "lost" ELSE "ended"
    BY <2>1 DEF PhaseOf
  <2>3. call[c].finished # "no" => ~call[c].caught
    BY <1>1 DEF Marked, Knex, Within
  <2>4. PhaseOf(call[c])' = IF call'[c].st = "failed" THEN "failed" ELSE "succeeded"
    BY <2>3 DEF PhaseOf
  <2>5. PhaseOf(call[c])' \in Isolated!Onward(PhaseOf(call[c]))
    BY <2>2, <2>4 DEF Isolated!Onward
  <2>6. QED
    BY <1>2, <1>4, <1>5, <2>5, RefusedPasses
<1>6. QED
  BY <1>4, <1>5

LEMMA FinishIsolates ==
    ASSUME IInv, AllMarked, IInv', NEW c \in Call, NEW how \in {"commit", "rollback"}, TxFinishes(c, how)
    PROVE  AllMarked' /\ (mixed' = {} => Isolated!ICNext)
<1> DEFINE b == call[c].conn
<1>1. /\ InPlace(c) /\ b \in Conn /\ call[c].st = "running" /\ call[c].finished = "no" /\ b \in db.open
      /\ db' = IF how = "commit" THEN Commit(db, b) ELSE Rollback(db, b)
      /\ mixed' = mixed \cup Mixing(c, b)
      /\ call'[c].finished = how /\ call'[c].caught = call[c].caught
      /\ \/ call'[c].st = "running"
         \/ call'[c].st = "answered" /\ how = "commit"
         \/ call'[c].st = "failed" /\ how = "rollback"
  BY TxFinishStep DEF IInv
<1>2. TransactionsOf(c, b) /\ call[c].kind = "transaction"
  BY InTxHas, TxFinishSays DEF IInv, TxFinishes
<1>3. call'[c].st = "running" => ~Knex
  <2>1. ASSUME Knex PROVE call'[c].st \in {"answered", "failed"}
    <3>1. PICK r : r = [call[c] EXCEPT !.finished = how]
      OBVIOUS
    <3>2. PICK s \in {"answered", "failed"} : call' = [call EXCEPT ![c] = Settled(r, s)]
      BY <2>1, <3>1 DEF TxFinishes
    <3>3. call[c] \in CallRecord /\ call \in [Call -> CallRecord]
      BY DEF IInv, Types, TypeOK
    <3>4. call'[c] = Settled(r, s) /\ r \in CallRecord
      BY <3>1, <3>2, <3>3 DEF CallRecord
    <3>5. QED
      BY <3>4 DEF Settled, CallRecord
  <2>2. QED
    BY <2>1
<1> HIDE DEF b
<1>4. \/ /\ db' = Commit(db, b)
         /\ call'[c].st = "answered" \/ (call'[c].st = "running" /\ call'[c].finished = "commit")
      \/ /\ db' = Rollback(db, b)
         /\ call'[c].st = "failed" \/ (call'[c].st = "running" /\ call'[c].finished = "rollback")
  BY <1>1
<1>5. QED
  BY <1>1, <1>2, <1>3, <1>4, EndIsolates DEF b

LEMMA ReturnIsolates ==
    ASSUME IInv, AllMarked, IInv', NEW c \in Call, TxReturns(c)
    PROVE  AllMarked' /\ (mixed' = {} => Isolated!ICNext)
<1> DEFINE b == call[c].conn
<1>1. /\ InPlace(c) /\ b \in Conn /\ call[c].st = "running" /\ call'[c].caught = call[c].caught
      /\ \/ /\ call[c].finished # "no" /\ db' = db /\ mixed' = mixed
            /\ call'[c].st = "answered"
         \/ /\ call[c].finished = "no" /\ b \in db.open
            /\ mixed' = mixed \cup Mixing(c, b)
            /\ \/ db' = Commit(db, b) /\ call'[c].st = "answered"
               \/ db' = Rollback(db, b) /\ call'[c].st = "failed"
         \/ /\ call[c].finished = "no" /\ (b \notin db.open \/ db.txOf[b] = NoCall)
            /\ db' = db /\ mixed' = mixed /\ call'[c].st = "failed"
  BY TxReturnStep DEF IInv
<1>2. TransactionsOf(c, b) /\ call[c].kind = "transaction"
  BY InTxHas, TxReturnSays DEF IInv, TxReturns
<1> HIDE DEF b
<1>3. CASE /\ call[c].finished = "no" /\ b \in db.open /\ mixed' = mixed \cup Mixing(c, b)
           /\ \/ db' = Commit(db, b) /\ call'[c].st = "answered"
              \/ db' = Rollback(db, b) /\ call'[c].st = "failed"
  BY <1>1, <1>2, <1>3, EndIsolates DEF b
<1>4. CASE /\ db' = db /\ mixed' = mixed
           /\ call[c].finished = "no" => b \notin db.open \/ db.txOf[b] = NoCall
           /\ call'[c].st = "failed" \/ (call'[c].st = "answered" /\ call[c].finished # "no")
  BY <1>1, <1>2, <1>4, QuietEndIsolates DEF b
<1>5. QED
  BY <1>1, <1>3, <1>4

LEMMA ThrowIsolates ==
    ASSUME IInv, AllMarked, IInv', NEW c \in Call, TxThrows(c)
    PROVE  AllMarked' /\ (mixed' = {} => Isolated!ICNext)
<1> DEFINE b == call[c].conn
<1>1. /\ InPlace(c) /\ b \in Conn /\ call[c].st = "running" /\ call'[c].caught = call[c].caught
      /\ call'[c].st = "failed"
      /\ \/ /\ call[c].finished = "no" /\ b \in db.open
            /\ db' = Rollback(db, b) /\ mixed' = mixed \cup Mixing(c, b)
         \/ /\ call[c].finished # "no" \/ b \notin db.open
            /\ db' = db /\ mixed' = mixed
  BY TxThrowStep DEF IInv
<1>2. TransactionsOf(c, b) /\ call[c].kind = "transaction"
  BY InTxHas, TxThrowSays DEF IInv, TxThrows
<1> HIDE DEF b
<1>3. CASE /\ call[c].finished = "no" /\ b \in db.open
           /\ db' = Rollback(db, b) /\ mixed' = mixed \cup Mixing(c, b)
  BY <1>1, <1>2, <1>3, EndIsolates DEF b
<1>4. CASE db' = db /\ mixed' = mixed /\ (call[c].finished # "no" \/ b \notin db.open)
  BY <1>1, <1>2, <1>4, QuietEndIsolates DEF b
<1>5. QED
  BY <1>1, <1>3, <1>4

LEMMA RetryIsolates ==
    ASSUME IInv, AllMarked, IInv', NEW c \in Call, TxRetries(c)
    PROVE  AllMarked' /\ (mixed' = {} => Isolated!ICNext)
<1> DEFINE b == call[c].conn
<1>1. /\ InPlace(c) /\ b \in Conn /\ call[c].st = "running" /\ b \in db.open
      /\ dialect = "mongodb" /\ call[c].finished = "no"
      /\ call'[c].st = "running" /\ call'[c].conn = b
      /\ call'[c].finished = call[c].finished /\ call'[c].caught = call[c].caught
      /\ mixed' = mixed
      /\ db' = Forgotten(Begin(Rollback(db, b), b, c, dialect), c)
  BY TxRetryStep DEF IInv
<1>2. /\ TransactionsOf(c, b) /\ call[c].kind = "transaction" /\ call'[c].kind = "transaction"
      /\ TypeOK /\ db \in Database /\ Marked(c) /\ dialect' = dialect /\ db'.open = db.open
  BY <1>1, InTxHas, TxRetrySays DEF IInv, TxRetries, Types, TypeOK, AllMarked, InPlace, InPlaceOf
<1>3. ~call[c].caught
  BY <1>1, <1>2 DEF Marked
<1>4. mixed = {} => db.txOf[b] = c
  BY <1>1, CallsOwn DEF Owning, Owns, Within
<1> HIDE DEF b
<1>5. /\ db'.txOf = [db.txOf EXCEPT ![b] = c] /\ db'.dirty = [db.dirty EXCEPT ![b] = {}]
      /\ db'.aborted = db.aborted \ {b} /\ db'.durable = db.durable
  BY <1>1, <1>2, RetryEffect
<1>6. OnlyOwn(c, b)
  BY <1>1, <1>2, <1>4, <1>5 DEF OnlyOwn
<1>7. Marked(c)'
  BY <1>1, <1>2, <1>3 DEF Marked, Fresh, Within
<1>8. AllMarked'
  BY <1>1, <1>6, <1>7, StatementMarks
<1>9. ASSUME mixed' = {} PROVE Isolated!ICNext
  <2>1. PhaseOf(call[c]) = "inside" /\ PhaseOf(call[c])' = "inside"
    BY <1>1, <1>2, <1>3 DEF PhaseOf, b
  <2>2. Owns(c)'
    BY <1>8, <1>9, CallsOwnNext DEF Owning
  <2>3. Uncommitted(c)' = {} /\ db'.durable = db.durable \cup {}
    BY <1>1, <1>2, <1>5, <2>2 DEF Owns, Within, Database
  <2>4. Isolated!Takes(c, "inside", {}, {})
    BY <1>1, <1>6, <1>9, <2>1, <2>3, OthersKeep, TakesStep
  <2>5. Isolated!Retries(c)
    BY <2>1, <2>4 DEF Isolated!Retries
  <2>6. QED
    BY <2>5 DEF Isolated!ICNext
<1>10. QED
  BY <1>8, <1>9

LEMMA ImportIsolates ==
    ASSUME IInv, AllMarked, IInv', NEW c \in Call, Imports(c)
    PROVE  AllMarked' /\ (mixed' = {} => Isolated!ICNext)
<1> DEFINE b == call[c].conn
<1>1. PICK t : t = Exec(db, b, <<c, 1>>)
  OBVIOUS
<1>2. /\ InPlace(c) /\ b \in Conn /\ call[c].st \in Fresh /\ call[c].st # "none" /\ call[c].kind = "import"
      /\ call'[c].caught = call[c].caught /\ call'[c].st \in {"answered", "failed"}
      /\ \/ /\ CanWrite(db, b, dialect) /\ mixed' = mixed \cup Mixing(c, b)
            /\ \/ /\ CanBegin(t, b, dialect)
                  /\ db' = Commit(Exec(Begin(t, b, c, dialect), b, <<c, 2>>), b)
                  /\ call'[c].st = "answered"
               \/ db' = t /\ call'[c].st = "failed"
         \/ db' = db /\ mixed' = mixed /\ call'[c].st = "failed"
  BY <1>1, ImportStep DEF IInv, InPlace, Over
<1>3. /\ TransactionsOf(c, b) /\ call'[c].kind = "import" /\ TypeOK /\ Types /\ Marked(c)
      /\ TransactionsAreOwned /\ dialect' = dialect /\ <<c, 1>> \in Write /\ <<c, 2>> \in Write
  BY <1>2, ImportSays DEF IInv, Types, AllMarked, Said, InPlace, Write
<1> HIDE DEF b
<1>4. Marked(c)'
  BY <1>2, <1>3 DEF Marked, Fresh, Within
<1>5. /\ PhaseOf(call[c]) = "import"
      /\ PhaseOf(call[c])' = IF call'[c].st = "answered" THEN "succeeded" ELSE "failed"
  BY <1>2, <1>3 DEF PhaseOf, Fresh, Marked
<1>6. AllMarked' /\ mixed' = {} => Uncommitted(c)' = {}
  BY <1>2, CallsOwnNext DEF Owning, Owns, Within
<1>7. CASE db' = db /\ mixed' = mixed /\ call'[c].st = "failed"
  <2>1. OnlyOwn(c, b) /\ Refused
    BY <1>2, <1>3, <1>7, RefusedIsOwn, RefusedStep
  <2>2. AllMarked'
    BY <1>2, <1>4, <2>1, StatementMarks
  <2>3. PhaseOf(call[c])' \in Isolated!Onward(PhaseOf(call[c]))
    BY <1>5, <1>7 DEF Isolated!Onward
  <2>4. QED
    BY <1>2, <2>1, <2>2, <2>3, RefusedPasses
<1>8. ASSUME mixed' = mixed \cup Mixing(c, b)
      PROVE  mixed \subseteq mixed' /\ (mixed' = {} => mixed = {} /\ db.txOf[b] = NoCall)
  BY <1>2, <1>3, <1>8, SharesNothing DEF Marked
<1>9. CASE mixed' = mixed \cup Mixing(c, b) /\ db' = t /\ call'[c].st = "failed"
  <2>1. db'.aborted = db.aborted /\ (db.txOf[b] = NoCall => db'.durable = db.durable \cup {<<c, 1>>})
    BY <1>1, <1>2, <1>3, <1>9, ExecEffect
  <2>2. OnlyOwn(c, b)
    BY <1>3, <1>8, <1>9, <2>1 DEF OnlyOwn
  <2>3. AllMarked'
    BY <1>2, <1>4, <2>2, StatementMarks
  <2>4. ASSUME mixed' = {} PROVE Isolated!ICNext
    <3>1. Isolated!Takes(c, "failed", {}, {<<c, 1>>})
      BY <1>2, <1>5, <1>6, <1>8, <1>9, <2>1, <2>2, <2>3, <2>4, OthersKeep, TakesStep
    <3>2. Isolated!Imports(c)
      BY <1>3, <1>5, <3>1, OwnWrites DEF Isolated!Imports
    <3>3. QED
      BY <3>2 DEF Isolated!ICNext
  <2>5. QED
    BY <2>3, <2>4
<1>10. CASE /\ CanWrite(db, b, dialect) /\ mixed' = mixed \cup Mixing(c, b)
            /\ CanBegin(t, b, dialect)
            /\ db' = Commit(Exec(Begin(t, b, c, dialect), b, <<c, 2>>), b)
            /\ call'[c].st = "answered"
  <2>1. /\ \A o \in Conn \ {b} : o \in db'.aborted <=> o \in db.aborted
        /\ \A w : w \in db'.durable <=> w \in db.durable \cup db.dirty[b] \cup {<<c, 1>>, <<c, 2>>}
    <3>1. Imported(c, b)
      BY <1>1, <1>10 DEF Imported
    <3>2. QED
      BY <1>2, <1>3, <1>10, <3>1, ImportEffect
  <2>2. OnlyOwn(c, b)
    BY <1>3, <1>8, <1>10, <2>1 DEF OnlyOwn
  <2>3. AllMarked'
    BY <1>2, <1>4, <2>2, StatementMarks
  <2>4. ASSUME mixed' = {} PROVE Isolated!ICNext
    <3>1. [d \in Call |-> {d} \X (1 .. 2)][c] = {<<c, 1>>, <<c, 2>>}
      OBVIOUS
    <3>2. db.dirty[b] = {}
      BY <1>2, <1>3, <1>8, <1>10, <2>4 DEF TransactionsAreOwned
    <3>3. db'.durable = db.durable \cup [d \in Call |-> {d} \X (1 .. 2)][c]
      BY <2>1, <3>1, <3>2
    <3>4. PhaseOf(call[c])' = "succeeded"
      BY <1>5, <1>10
    <3>5. Isolated!Takes(c, "succeeded", {}, [d \in Call |-> {d} \X (1 .. 2)][c])
      BY <1>2, <1>6, <2>2, <2>3, <2>4, <3>3, <3>4, OthersKeep, TakesStep
    <3>6. Isolated!Imports(c)
      BY <1>5, <3>5 DEF Isolated!Imports
    <3>7. QED
      BY <3>6 DEF Isolated!ICNext
  <2>5. QED
    BY <2>3, <2>4
<1>11. QED
  BY <1>2, <1>7, <1>9, <1>10

LEMMA CompoundIsolates ==
    ASSUME IInv, AllMarked, IInv', NEW c \in Call, CompoundRuns(c)
    PROVE  AllMarked' /\ (mixed' = {} => Isolated!ICNext)
<1> DEFINE b == call[c].conn
           own == [d \in Call |-> {d} \X (1 .. 2)][c]
<1>1. PICK t : t = Exec(db, b, <<c, 1>>)
  OBVIOUS
<1>2. /\ InPlace(c) /\ b \in Conn /\ call[c].st \in Fresh /\ call[c].st # "none" /\ call[c].kind = "compound"
      /\ call'[c].caught = call[c].caught
      /\ \/ /\ CanWrite(db, b, dialect) /\ mixed' = mixed \cup Mixing(c, b)
            /\ \/ db' = Exec(t, b, <<c, 2>>) /\ call'[c].st = "applied"
               \/ db' = t /\ call'[c].st = "failed"
         \/ db' = Fail(db, b, dialect) /\ mixed' = mixed /\ call'[c].st = "failed"
  BY <1>1, CompoundStep DEF IInv, InPlace, Over
<1>3. /\ TransactionsOf(c, b) /\ call'[c].kind = "compound" /\ TypeOK /\ Types /\ Marked(c)
      /\ dialect' = dialect
  BY <1>2, CompoundSays DEF IInv, Types, AllMarked, InPlace
<1>4. own = {<<c, 1>>, <<c, 2>>}
  OBVIOUS
<1> HIDE DEF b, own
<1>5. Marked(c)'
  BY <1>2, <1>3 DEF Marked, Fresh, Within
<1>6. PhaseOf(call[c]) = "compound" /\ PhaseOf(call[c])' = call'[c].st
  BY <1>2, <1>3 DEF PhaseOf, Fresh
<1>7. AllMarked' /\ mixed' = {} => Uncommitted(c)' = {}
  BY <1>2, CallsOwnNext DEF Owning, Owns, Within
<1>8. CASE db' = Fail(db, b, dialect) /\ mixed' = mixed /\ call'[c].st = "failed"
  <2>1. OnlyOwn(c, b) /\ Refused
    BY <1>2, <1>3, <1>8, RefusedIsOwn, RefusedStep
  <2>2. AllMarked'
    BY <1>2, <1>5, <2>1, StatementMarks
  <2>3. PhaseOf(call[c])' \in Isolated!Onward(PhaseOf(call[c]))
    BY <1>6, <1>8 DEF Isolated!Onward
  <2>4. QED
    BY <1>2, <2>1, <2>2, <2>3, RefusedPasses
<1>9. ASSUME mixed' = mixed \cup Mixing(c, b), NEW ws \in SUBSET own, Spreads(b, ws),
             call'[c].st = "failed" \/ (call'[c].st = "applied" /\ ws = own)
      PROVE  AllMarked' /\ (mixed' = {} => Isolated!ICNext)
  <2>1. mixed \subseteq mixed' /\ (mixed' = {} => mixed = {} /\ db.txOf[b] = NoCall)
    BY <1>2, <1>3, <1>9, SharesNothing DEF Marked
  <2>2. OnlyOwn(c, b)
    BY <1>3, <1>9, <2>1 DEF OnlyOwn, Spreads
  <2>3. AllMarked'
    BY <1>2, <1>5, <2>2, StatementMarks
  <2>4. ASSUME mixed' = {} PROVE Isolated!ICNext
    <3>1. db'.durable = db.durable \cup ws
      BY <1>9, <2>1, <2>4 DEF Spreads
    <3>2. Isolated!Takes(c, call'[c].st, {}, ws)
      BY <1>2, <1>6, <1>7, <2>2, <2>3, <2>4, <3>1, OthersKeep, TakesStep
    <3>3. Isolated!Compounds(c)
      BY <1>6, <1>9, <3>2 DEF Isolated!Compounds, own
    <3>4. QED
      BY <3>3 DEF Isolated!ICNext
  <2>5. QED
    BY <2>3, <2>4
<1>10. CASE mixed' = mixed \cup Mixing(c, b) /\ db' = Exec(t, b, <<c, 2>>) /\ call'[c].st = "applied"
  BY <1>1, <1>2, <1>3, <1>4, <1>9, <1>10, CompoundEffect
<1>11. CASE mixed' = mixed \cup Mixing(c, b) /\ db' = t /\ call'[c].st = "failed"
  BY <1>1, <1>2, <1>3, <1>4, <1>9, <1>11, CompoundEffect
<1>12. QED
  BY <1>2, <1>8, <1>10, <1>11

-----------------------------------------------------------------------------
(* Every step of the drivers is one of isolated calls, or none.            *)

LEMMA CalmStep ==
    ASSUME IInv, AllMarked, IInv', Calm, \A d \in Call : Honest(d)
    PROVE  AllMarked' /\ (mixed' = {} => Isolated!ICNext)
BY CalmMarks, CalmIsolates

LEMMA InTransactionIsolates ==
    ASSUME IInv, AllMarked, IInv', NEW c \in Call, InTransaction(c)
    PROVE  AllMarked' /\ (mixed' = {} => Isolated!ICNext)
<1>1. Types
  BY DEF IInv
<1>2. CASE TxWrites(c)
  BY <1>2, TxWriteIsolates
<1>3. CASE TxProbes(c)
  BY <1>1, <1>3, TxProbesStep, ConnectionsAreHonest, CalmStep
<1>4. CASE ProbeAnswers(c)
  BY <1>1, <1>4, ProbeAnswersStep, ConnectionsAreHonest, CalmStep
<1>5. CASE ProbeFails(c)
  BY <1>1, <1>5, QuietSteps, QuietIsHonest, CalmStep DEF Quiet
<1>6. CASE TxRetries(c)
  BY <1>6, RetryIsolates
<1>7. ASSUME NEW how \in {"commit", "rollback"}, TxFinishes(c, how)
      PROVE  AllMarked' /\ (mixed' = {} => Isolated!ICNext)
  BY <1>7, FinishIsolates
<1>8. CASE TxReturns(c)
  BY <1>8, ReturnIsolates
<1>9. CASE TxThrows(c)
  BY <1>9, ThrowIsolates
<1>10. QED
  BY <1>2, <1>3, <1>4, <1>5, <1>6, <1>7, <1>8, <1>9 DEF InTransaction

LEMMA CallIsolates ==
    ASSUME IInv, AllMarked, IInv', NEW c \in Call, Starts(c) \/ Continues(c)
    PROVE  AllMarked' /\ (mixed' = {} => Isolated!ICNext)
<1>1. Types /\ Accounts
  BY DEF IInv
<1>2. CASE Starts(c)
  <2>1. ASSUME NEW h \in Handle, NEW k \in kindsOf[c], StartLite(c, h, k) PROVE Calm
    BY <1>1, <2>1, StartLiteStep
  <2>2. ASSUME NEW h \in Handle, NEW k \in kindsOf[c], StartServer(c, h, k) PROVE Calm
    BY <1>1, <2>2, StartServerStep
  <2>3. CASE TestStarts(c)
    BY <1>1, <1>2, <2>3, TestStartsStep, StartsAreHonest, CalmStep
  <2>4. QED
    BY <1>1, <1>2, <2>1, <2>2, <2>3, StartsAreHonest, CalmStep DEF Starts
<1>3. CASE GetsBackend(c)
  BY <1>1, <1>3, GetsBackendStep, ConnectionsAreHonest, CalmStep
<1>4. CASE Connects(c) \/ AcquireFails(c) \/ Probes(c) \/ ReadEnds(c) \/ RereadFails(c) \/ CompoundEnds(c)
  BY <1>1, <1>4, QuietSteps, QuietIsHonest, CalmStep DEF Quiet
<1>5. CASE Acquires(c)
  BY <1>1, <1>5, AcquiresStep, ConnectionsAreHonest, CalmStep
<1>6. CASE TestConnects(c)
  BY <1>1, <1>6, TestConnectsStep, ConnectionsAreHonest, CalmStep
<1>7. CASE TestEnds(c)
  BY <1>1, <1>7, TestEndsStep, ConnectionsAreHonest, CalmStep
<1>8. CASE WriteEnds(c) \/ ControlPasses(c) \/ Imports(c) \/ TxBegins(c) \/ InTransaction(c)
  BY <1>8, WriteIsolates, ControlIsolates, ImportIsolates, BeginIsolates, InTransactionIsolates
<1>9. CASE CompoundRuns(c)
  BY <1>9, CompoundIsolates
<1>10. CASE RereadAsks(c) \/ RereadAnswers(c)
  <2>1. Calm
    BY <1>1, <1>10, RereadAsksStep, RereadAnswersStep
  <2>2. QED
    BY <1>1, <1>10, <2>1, ConnectionsAreHonest, CalmStep
<1>11. QED
  BY <1>2, <1>3, <1>4, <1>5, <1>6, <1>7, <1>8, <1>9, <1>10 DEF Continues

LEMMA InitIsIsolated == Init => AllMarked /\ Isolated!ICInit
<1> SUFFICES ASSUME Init PROVE AllMarked /\ Isolated!ICInit
  OBVIOUS
<1>1. /\ \A c \in Call : call[c].st = "none" /\ call[c].kind = "read" /\ ~call[c].caught
      /\ db = NoDatabaseYet
  <2>1. ASSUME NEW c \in Call PROVE ~call[c].caught
    BY Zenon DEF Init
  <2>2. QED
    BY <2>1 DEF Init, StoreInit
<1>2. db.durable = {} /\ \A b \in Conn : db.txOf[b] = NoCall
  BY <1>1 DEF NoDatabaseYet
<1>3. AllMarked
  BY <1>1, <1>2, ConnectionAssumption DEF AllMarked, Marked, Within, ConnectionAssumption
<1>4. \A c \in Call : PhaseOf(call[c]) = "idle" /\ Uncommitted(c) = {}
  BY <1>1, <1>2, ConnectionAssumption DEF PhaseOf, Uncommitted, ConnectionAssumption
<1>5. QED
  BY <1>2, <1>3, <1>4 DEF Isolated!ICInit

LEMMA StepIsolates ==
    ASSUME IInv, AllMarked, IInv', [Next]_vars
    PROVE  AllMarked' /\ [mixed' = {} => Isolated!ICNext]_(Isolated!icVars)
<1>1. CASE Next
  <2>1. ASSUME NEW c \in Call, Starts(c) \/ Continues(c)
        PROVE  AllMarked' /\ (mixed' = {} => Isolated!ICNext)
    BY <2>1, CallIsolates
  <2>2. ASSUME NEW h \in Handle, Settles(h) \/ Destroy(h) \/ DestroyEnds(h)
        PROVE  AllMarked' /\ (mixed' = {} => Isolated!ICNext)
    BY <2>2, HandlesAreHonest, CalmStep
  <2>3. QED
    BY <1>1, <2>1, <2>2 DEF Next
<1>2. CASE UNCHANGED vars
  <2>1. AllMarked'
    BY <1>2 DEF vars, AllMarked, Marked, Knex
  <2>2. UNCHANGED Isolated!icVars
    BY <1>2 DEF vars, Isolated!icVars, PhaseOf, Uncommitted
  <2>3. QED
    BY <2>1, <2>2
<1>3. QED
  BY <1>1, <1>2

(* As long as no call has shared a connection with a transaction that is   *)
(* not its own, every call works for itself, in every dialect: a statement *)
(* takes effect at once and a transaction in one step or not at all, none  *)
(* is undone, and each call is told so, but for a transaction that         *)
(* PostgreSQL drops, the table that an import replaced before it failed,   *)
(* and a compound write that fails with any part of it, or all, in effect. *)
THEOREM ImplementsIsolatedCalls == Spec => IsolatesCalls
<1>1. Init => IInv /\ AllMarked /\ Isolated!ICInit
  BY InitEstablishes, InitIsIsolated
<1>2. IInv /\ AllMarked /\ [Next]_vars
         => (IInv /\ AllMarked)' /\ [mixed' = {} => Isolated!ICNext]_(Isolated!icVars)
  BY NextPreserves, StepIsolates
<1>3. QED
  BY <1>1, <1>2, PTL DEF Spec, IsolatesCalls

(* On a server nobody shares a connection unless BEGIN, COMMIT or ROLLBACK *)
(* is sent as a statement of its own; without these its calls are isolated *)
(* ones in every step. What that promises of a compound write that fails   *)
(* (the read-back of MySQL, many documents of MongoDB) is Compounds: any   *)
(* part of it may stay, nothing of another call's.                         *)
THEOREM ServersIsolateCalls == Spec /\ [](~Lite /\ NoControls) => Isolated!ICSpec
<1>1. ~Lite /\ NoControls /\ ServerTransactionsAreAlone => mixed = {}
  BY DEF ServerTransactionsAreAlone
<1>2. (mixed = {})' /\ [mixed' = {} => Isolated!ICNext]_(Isolated!icVars)
         => [Isolated!ICNext]_(Isolated!icVars)
  OBVIOUS
<1>3. QED
  BY <1>1, <1>2, ImplementsIsolatedCalls, ServersKeepTransactionsApart, PTL
     DEF IsolatesCalls, Isolated!ICSpec

=============================================================================
