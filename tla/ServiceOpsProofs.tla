-------------------------- MODULE ServiceOpsProofs --------------------------
(***************************************************************************)
(* Proofs about the operations on a service, for any set of processes, any *)
(* requests and initial services of the right shape, any number of         *)
(* operations, failing calls and deaths: updates are neither lost nor left *)
(* half done without a warning, a setting that is to be kept is present at *)
(* every single call, and a service without the marker is left alone.      *)
(*                                                                         *)
(* The argument has two parts.  About plans (the sequences of registry     *)
(* calls of ManagedConfig): every call sets its names to what the goal has *)
(* for them, and the calls that are left, with what is there already, give *)
(* the goal; a default action is under its new name before the old one     *)
(* goes (Underway).  About processes: only the owner of the mutex touches  *)
(* the values, and its place in the operation tells how they relate to     *)
(* what everybody was told (Holding).                                      *)
(*                                                                         *)
(* The conversions of what the operations read and write (Conversions),    *)
(* for texts and access lists of any length: image paths, absolute paths,  *)
(* the access check of a directory, and registry strings.                  *)
(***************************************************************************)
EXTENDS Conversions, ServiceOps, SequenceTheorems, WellFoundedInduction, TLAPS

Call == [names : SUBSET Names, value : Values \cup {None, Bad}]

\* Every call of the plan p sets its names to what g has for them.
Toward(p, g) == \A i \in DOMAIN p : \A n \in p[i].names : p[i].value = g[n]

Covers(p, n) == \E i \in DOMAIN p : n \in p[i].names

\* NSSM's spelling of the default action goes only after the unnamed one was written.
DropsNamed(call) == "AppExit\\Default" \in call.names /\ call.value = None

NamedLast(p) ==
    \A i \in DOMAIN p : DropsNamed(p[i]) => \E j \in DOMAIN p : j < i /\ "AppExit\\" \in p[j].names

LeavesExits(p) == \A i \in DOMAIN p : p[i].names \cap ExitNames = {}

\* The plan p takes the values r to g.
Underway(r, p, g) ==
    /\ Toward(p, g)
    /\ \A n \in Names : r[n] = g[n] \/ Covers(p, n)
    /\ g["AppExit\\"] # None => r["AppExit\\"] # None \/ NamedLast(p)
    /\ g["AppExit\\Default"] = None \/ LeavesExits(p)

-----------------------------------------------------------------------------
(* The invariant *)

Pcs == {"lock", "read", "open", "create", "write", "undo", "native", "describe", "set",
        "describe_new", "configure", "uninstall", "query", "delete", "purge", "scrub",
        "rebind", "startservice", "control", "poll"}

UnlockedPcs == {"rebind", "startservice", "control", "poll"}

Job == [pc : Pcs, req : Requests, plan : Seq(Call), goal : Registry, orig : Registry,
        failed : BOOLEAN]

DataType ==
    /\ scm \in ScmRecords /\ reg \in Registry /\ expected \in Registry /\ intent \in Registry
    /\ torn \in BOOLEAN
    /\ lock \in Clients \cup {NoOne} /\ cl \in [Clients -> {Idle} \cup Job]

\* Which operation a process is in the middle of.
Place(j) ==
    /\ j.pc \in {"read", "write", "undo"} => j.req.op \in {"edit", "recovery"}
    /\ j.pc \in {"write", "undo"} => TouchesManaged(j.req)
    /\ j.pc \in {"native", "describe"} => j.req.op \in {"edit", "native"}
    /\ j.pc = "describe" => j.req.description # None
    /\ j.pc \in {"open", "set"} => j.req.op = "set"
    /\ j.pc \in {"create", "describe_new", "configure", "uninstall"} => j.req.op = "install"
    /\ j.pc \in {"delete", "purge", "scrub"} => j.req.op = "remove"
    /\ j.pc = "query" => j.req.op = "remove" \/ j.req.op \in UnlockedOps
    /\ j.pc \in UnlockedPcs => j.req.op \in UnlockedOps
    /\ j.pc = "lock" => j.req.op \in LockedOps
    /\ RequestOK(j.req)

PlaceInv == \A c \in Clients : cl[c] # Idle => Place(cl[c])

Owns(j) == j # Idle /\ j.req.op \in LockedOps /\ j.pc # "lock"

LockInv == \A c \in Clients : lock = c <=> Owns(cl[c])

\* What there is, and what everybody was told.
View == [present |-> scm.present, reg |-> reg, expected |-> expected, torn |-> torn,
         intent |-> intent]

Agree(w) == w.torn \/ w.reg = w.expected

\* A service that is gone has taken its values with it.
Gone(w) == ~w.present => w.reg = NoValues /\ Agree(w)

\* NeverErased.
Kept(w) ==
    w.present /\ ~w.torn =>
        \A n \in Names : Config(w.expected)[n] # None /\ Config(w.intent)[n] # None
                            => Config(w.reg)[n] # None

\* An edit or a recovery update between the read and its end, forward and back.
Original(j, w) ==
    /\ HasMarker(j.orig) /\ j.orig["AppExit\\Default"] = None
    /\ w.present => HasMarker(w.reg)
    /\ w.present /\ ~w.torn => j.orig = Config(w.expected)

Edits(j, w) ==
    /\ Original(j, w) /\ HasMarker(j.goal)
    /\ w.present /\ ~w.torn => j.goal = Merged(j.req, Config(w.expected)) /\ w.intent = j.goal

\* The calls of a set are one or two: none of them is done yet, or the first.
SetCalls(j) == SetPlan(j.req.name, j.req.value)

Halfway(j, w) ==
    /\ j.plan = SetCalls(j) \/ Len(j.plan) <= 1
    /\ w.present /\ ~w.torn /\ j.plan = SetCalls(j) => w.reg = w.expected
    /\ w.present /\ ~w.torn /\ j.plan \notin {SetCalls(j), <<>>} =>
         w.reg = Apply(w.expected, Head(SetCalls(j)))

Sets(j, w) ==
    /\ HasMarker(j.goal) /\ Halfway(j, w)
    /\ w.present => HasMarker(w.reg)
    /\ w.present /\ ~w.torn =>
         /\ j.orig = w.expected /\ j.goal = SetGoal(w.expected, j.req.name, j.req.value)
         /\ w.intent = j.goal

\* The place of the owner tells how the values relate to what was told.
Holding(j, w) ==
    /\ j.pc \in {"read", "open", "create", "query", "delete", "purge"} => Agree(w)
    /\ j.pc \in {"native", "describe"} /\ ~TouchesManaged(j.req) => Agree(w)
    /\ j.pc \in {"native", "describe"} /\ TouchesManaged(j.req) =>
         Edits(j, w) /\ (w.present => w.reg = j.goal)
    /\ j.pc = "write" => Edits(j, w) /\ (w.present => Underway(w.reg, j.plan, j.goal))
    /\ j.pc = "undo" => Original(j, w) /\ (w.present => Underway(w.reg, j.plan, j.orig))
    /\ j.pc = "set" => Sets(j, w) /\ (w.present => Underway(w.reg, j.plan, j.goal))
    /\ j.pc \in {"describe_new", "configure", "uninstall"} => w.torn \/ w.expected = NoValues
    /\ j.pc = "describe_new" => w.reg = NoValues
    /\ j.pc = "configure" =>
         j.goal = j.req.config /\ (w.present => Underway(w.reg, j.plan, j.goal))
    /\ j.pc = "scrub" =>
         /\ j.goal = NoValues /\ w.intent = NoValues /\ Readable(j.orig)
         /\ w.present /\ ~j.failed => Underway(w.reg, j.plan, NoValues)

HoldInv == IF lock = NoOne THEN Agree(View) ELSE Holding(cl[lock], View)

IInv == DataType /\ PlaceInv /\ LockInv /\ Gone(View) /\ Kept(View) /\ HoldInv

-----------------------------------------------------------------------------
(* Plans *)

\* A part of a plan toward g, and one that drops no named default action.
Piece(p, g) == p \in Seq(Call) /\ Toward(p, g)

NoDrop(p) == \A i \in DOMAIN p : ~DropsNamed(p[i])

\* Parts are put together.
LEMMA Joined ==
    ASSUME NEW g, NEW p, NEW q, Piece(p, g), Piece(q, g)
    PROVE  /\ Piece(p \o q, g)
           /\ \A n : Covers(p \o q, n) <=> Covers(p, n) \/ Covers(q, n)
           /\ NoDrop(p) /\ NoDrop(q) => NoDrop(p \o q)
           /\ NamedLast(p) /\ NamedLast(q) => NamedLast(p \o q)
           /\ NoDrop(p) /\ Covers(p, "AppExit\\") => NamedLast(p \o q)
<1> DEFINE s == p \o q
<1>1. p \in Seq(Call) /\ q \in Seq(Call)
  BY DEF Piece
<1>2. /\ s \in Seq(Call) /\ Len(s) = Len(p) + Len(q) /\ Len(p) \in Nat /\ Len(q) \in Nat
      /\ DOMAIN s = 1..Len(s) /\ DOMAIN p = 1..Len(p) /\ DOMAIN q = 1..Len(q)
  BY <1>1, ConcatProperties
<1>3. \A i \in DOMAIN p : i \in DOMAIN s /\ s[i] = p[i]
  BY <1>1, <1>2, ConcatProperties
<1>4. \A i \in DOMAIN q : Len(p) + i \in DOMAIN s /\ s[Len(p) + i] = q[i]
  BY <1>1, <1>2, ConcatProperties
<1>5. ASSUME NEW i \in DOMAIN s
      PROVE  \/ i \in DOMAIN p /\ s[i] = p[i]
             \/ i - Len(p) \in DOMAIN q /\ s[i] = q[i - Len(p)] /\ i = Len(p) + (i - Len(p))
  BY <1>1, <1>2, ConcatProperties
<1> HIDE DEF s
<1>6. Toward(s, g)
  BY <1>5 DEF Toward, Piece
<1>7. \A n : Covers(s, n) <=> Covers(p, n) \/ Covers(q, n)
  BY <1>3, <1>4, <1>5 DEF Covers
<1>8. NoDrop(p) /\ NoDrop(q) => NoDrop(s)
  BY <1>5 DEF NoDrop
<1>9. ASSUME NamedLast(p), NamedLast(q) PROVE NamedLast(s)
  <2> SUFFICES ASSUME NEW i \in DOMAIN s, DropsNamed(s[i])
               PROVE  \E j \in DOMAIN s : j < i /\ "AppExit\\" \in s[j].names
    BY DEF NamedLast
  <2>1. CASE i \in DOMAIN p /\ s[i] = p[i]
    BY <1>3, <1>9, <2>1 DEF NamedLast
  <2>2. CASE i - Len(p) \in DOMAIN q /\ s[i] = q[i - Len(p)] /\ i = Len(p) + (i - Len(p))
    <3>1. PICK j \in DOMAIN q : j < i - Len(p) /\ "AppExit\\" \in q[j].names
      BY <1>9, <2>2 DEF NamedLast
    <3>2. Len(p) + j \in DOMAIN s /\ s[Len(p) + j] = q[j]
      BY <1>4
    <3>3. Len(p) + j < i
      BY <1>2, <3>1
    <3> QED
      BY <3>1, <3>2, <3>3
  <2> QED
    BY <1>5, <2>1, <2>2
<1>10. ASSUME NoDrop(p), Covers(p, "AppExit\\") PROVE NamedLast(s)
  <2>1. PICK j \in DOMAIN p : "AppExit\\" \in p[j].names
    BY <1>10 DEF Covers
  <2> SUFFICES ASSUME NEW i \in DOMAIN s, DropsNamed(s[i])
               PROVE  \E k \in DOMAIN s : k < i /\ "AppExit\\" \in s[k].names
    BY DEF NamedLast
  <2>2. i - Len(p) \in DOMAIN q
    BY <1>5, <1>10 DEF NoDrop
  <2>3. j < i
    BY <1>2, <2>2
  <2> QED
    BY <1>3, <2>1, <2>3
<1> QED
  BY <1>2, <1>6, <1>7, <1>8, <1>9, <1>10 DEF Piece, s

\* A single call, and none.
LEMMA Single ==
    ASSUME NEW g, NEW ns \in SUBSET Names, NEW v \in Values \cup {None, Bad},
           \A n \in ns : g[n] = v
    PROVE  LET p == <<[names |-> ns, value |-> v]>>
           IN  /\ Piece(p, g)
               /\ \A n : Covers(p, n) <=> n \in ns
               /\ v # None \/ "AppExit\\Default" \notin ns => NoDrop(p)
<1> DEFINE call == [names |-> ns, value |-> v]
           p == <<call>>
<1>1. call \in Call /\ call.names = ns /\ call.value = v
  BY DEF Call
<1> HIDE DEF call
<1>2. p \in Seq(Call) /\ DOMAIN p = {1} /\ p[1] = call
  BY <1>1
<1> HIDE DEF p
<1>3. Piece(p, g)
  BY <1>1, <1>2 DEF Piece, Toward
<1>4. \A n : Covers(p, n) <=> n \in ns
  BY <1>1, <1>2 DEF Covers
<1>5. v # None \/ "AppExit\\Default" \notin ns => NoDrop(p)
  BY <1>1, <1>2 DEF NoDrop, DropsNamed
<1> QED
  BY <1>3, <1>4, <1>5 DEF p, call

LEMMA Nothing ==
    ASSUME NEW g
    PROVE  Piece(<<>>, g) /\ NoDrop(<<>>) /\ \A n : ~Covers(<<>>, n)
<1>1. <<>> \in Seq(Call) /\ DOMAIN <<>> = {}
  BY EmptySeq
<1> QED
  BY <1>1 DEF Piece, Toward, NoDrop, Covers

\* A plan that drops nothing drops nothing too early.
LEMMA NoDropIsLast ==
    ASSUME NEW p, NoDrop(p) PROVE NamedLast(p)
  BY DEF NoDrop, NamedLast

\* The call for a wanted value and for a stale one.
LEMMA PutPiece ==
    ASSUME NEW cfg \in Registry, NEW n \in Names
    PROVE  /\ Piece(PutWanted(cfg, n), cfg) /\ NoDrop(PutWanted(cfg, n))
           /\ \A m : Covers(PutWanted(cfg, n), m) <=> m = n /\ cfg[n] # None
<1>1. cfg[n] \in Values \cup {None, Bad}
  BY DEF Registry
<1>2. CASE cfg[n] = None
  <2>1. PutWanted(cfg, n) = <<>>
    BY <1>2 DEF PutWanted
  <2> QED
    BY <1>2, <2>1, Nothing
<1>3. CASE cfg[n] # None
  <2>1. PutWanted(cfg, n) = <<[names |-> {n}, value |-> cfg[n]]>>
    BY <1>3 DEF PutWanted, Put
  <2> DEFINE v == cfg[n]
             p == <<[names |-> {n}, value |-> v]>>
  <2>2. /\ Piece(p, cfg) /\ (\A m : Covers(p, m) <=> m \in {n})
        /\ v # None \/ "AppExit\\Default" \notin {n} => NoDrop(p)
    <3>1. {n} \in SUBSET Names /\ v \in Values \cup {None, Bad} /\ \A m \in {n} : cfg[m] = v
      BY <1>1
    <3> QED
      BY <3>1, Single
  <2> QED
    BY <1>3, <2>1, <2>2
<1> QED
  BY <1>2, <1>3

LEMMA DelPiece ==
    ASSUME NEW r, NEW cfg, NEW n \in Names
    PROVE  /\ Piece(DelStale(r, cfg, n), cfg)
           /\ n # "AppExit\\Default" => NoDrop(DelStale(r, cfg, n))
           /\ \A m : Covers(DelStale(r, cfg, n), m) <=> m = n /\ cfg[n] = None /\ r[n] # None
<1>1. CASE cfg[n] = None /\ r[n] # None
  <2>1. DelStale(r, cfg, n) = <<[names |-> {n}, value |-> None]>>
    BY <1>1 DEF DelStale, Del
  <2> DEFINE v == None
             p == <<[names |-> {n}, value |-> v]>>
  <2>2. /\ Piece(p, cfg) /\ (\A m : Covers(p, m) <=> m \in {n})
        /\ v # None \/ "AppExit\\Default" \notin {n} => NoDrop(p)
    <3>1. {n} \in SUBSET Names /\ v \in Values \cup {None, Bad} /\ \A m \in {n} : cfg[m] = v
      BY <1>1
    <3> QED
      BY <3>1, Single
  <2> QED
    BY <1>1, <2>1, <2>2
<1>2. CASE ~(cfg[n] = None /\ r[n] # None)
  <2>1. DelStale(r, cfg, n) = <<>>
    BY <1>2 DEF DelStale
  <2> QED
    BY <1>2, <2>1, Nothing
<1> QED
  BY <1>1, <1>2

\* The wanted and the stale values of the two groups.
LEMMA OwnedCalls ==
    ASSUME NEW r, NEW cfg \in Registry
    PROVE  LET Wanted == [n \in Names |-> PutWanted(cfg, n)]
               Stale == [n \in Names |-> DelStale(r, cfg, n)]
               p == EachOwned(Wanted)
               q == EachOwned(Stale)
           IN  /\ Piece(p, cfg) /\ NoDrop(p) /\ Piece(q, cfg) /\ NoDrop(q)
               /\ \A n \in OwnedValues : cfg[n] # None => Covers(p, n)
               /\ \A n \in OwnedValues : cfg[n] = None /\ r[n] # None => Covers(q, n)
<1> DEFINE P(n) == PutWanted(cfg, n)
           Q(n) == DelStale(r, cfg, n)
           p2 == P("Application") \o P("AppDirectory")
           p3 == p2 \o P("AppStdout")
           p == p3 \o P("AppStdoutShareMode")
           q2 == Q("Application") \o Q("AppDirectory")
           q3 == q2 \o Q("AppStdout")
           q == q3 \o Q("AppStdoutShareMode")
<1>1. \A n \in OwnedValues : Piece(P(n), cfg) /\ NoDrop(P(n)) /\ (cfg[n] # None => Covers(P(n), n))
  BY PutPiece DEF Names
<1>2. \A n \in OwnedValues : /\ Piece(Q(n), cfg) /\ NoDrop(Q(n))
                             /\ cfg[n] = None /\ r[n] # None => Covers(Q(n), n)
  BY DelPiece DEF Names, OwnedValues
<1> HIDE DEF P, Q
<1>3. Piece(p2, cfg) /\ NoDrop(p2) /\ \A n : Covers(p2, n) <=> Covers(P("Application"), n) \/ Covers(P("AppDirectory"), n)
  BY <1>1, Joined DEF OwnedValues
<1>4. Piece(q2, cfg) /\ NoDrop(q2) /\ \A n : Covers(q2, n) <=> Covers(Q("Application"), n) \/ Covers(Q("AppDirectory"), n)
  BY <1>2, Joined DEF OwnedValues
<1> HIDE DEF p2, q2
<1>5. Piece(p3, cfg) /\ NoDrop(p3) /\ \A n : Covers(p3, n) <=> Covers(p2, n) \/ Covers(P("AppStdout"), n)
  BY <1>1, <1>3, Joined DEF OwnedValues
<1>6. Piece(q3, cfg) /\ NoDrop(q3) /\ \A n : Covers(q3, n) <=> Covers(q2, n) \/ Covers(Q("AppStdout"), n)
  BY <1>2, <1>4, Joined DEF OwnedValues
<1> HIDE DEF p3, q3
<1>7. Piece(p, cfg) /\ NoDrop(p) /\ \A n : Covers(p, n) <=> Covers(p3, n) \/ Covers(P("AppStdoutShareMode"), n)
  BY <1>1, <1>5, Joined DEF OwnedValues
<1>8. Piece(q, cfg) /\ NoDrop(q) /\ \A n : Covers(q, n) <=> Covers(q3, n) \/ Covers(Q("AppStdoutShareMode"), n)
  BY <1>2, <1>6, Joined DEF OwnedValues
<1> HIDE DEF p, q
<1>9. \A n \in OwnedValues : cfg[n] # None => Covers(p, n)
  BY <1>1, <1>3, <1>5, <1>7 DEF OwnedValues
<1>10. \A n \in OwnedValues : cfg[n] = None /\ r[n] # None => Covers(q, n)
  BY <1>2, <1>4, <1>6, <1>8 DEF OwnedValues
<1>11. \A n \in OwnedValues : /\ [m \in Names |-> PutWanted(cfg, m)][n] = P(n)
                              /\ [m \in Names |-> DelStale(r, cfg, m)][n] = Q(n)
  BY DEF Names, P, Q
<1> QED
  BY <1>7, <1>8, <1>9, <1>10, <1>11 DEF EachOwned, OwnedValues, p, p2, p3, q, q2, q3

LEMMA ExitPieces ==
    ASSUME NEW r, NEW cfg \in Registry
    PROVE  LET Wanted == [n \in Names |-> PutWanted(cfg, n)]
               Stale == [n \in Names |-> DelStale(r, cfg, n)]
               p == EachExit(Wanted)
               q == EachExit(Stale)
           IN  /\ Piece(p, cfg) /\ NoDrop(p) /\ Piece(q, cfg)
               /\ \A n \in ExitNames : cfg[n] # None => Covers(p, n)
               /\ \A n \in ExitNames : cfg[n] = None /\ r[n] # None => Covers(q, n)
<1> DEFINE P(n) == PutWanted(cfg, n)
           Q(n) == DelStale(r, cfg, n)
           p2 == P("AppExit\\1") \o P("AppExit\\")
           p == p2 \o P("AppExit\\Default")
           q2 == Q("AppExit\\1") \o Q("AppExit\\")
           q == q2 \o Q("AppExit\\Default")
<1>1. \A n \in ExitNames : Piece(P(n), cfg) /\ NoDrop(P(n)) /\ (cfg[n] # None => Covers(P(n), n))
  BY PutPiece DEF Names
<1>2. \A n \in ExitNames : Piece(Q(n), cfg) /\ (cfg[n] = None /\ r[n] # None => Covers(Q(n), n))
  BY DelPiece DEF Names
<1> HIDE DEF P, Q
<1>3. Piece(p2, cfg) /\ NoDrop(p2) /\ \A n : Covers(p2, n) <=> Covers(P("AppExit\\1"), n) \/ Covers(P("AppExit\\"), n)
  BY <1>1, Joined DEF ExitNames
<1>4. Piece(q2, cfg) /\ \A n : Covers(q2, n) <=> Covers(Q("AppExit\\1"), n) \/ Covers(Q("AppExit\\"), n)
  BY <1>2, Joined DEF ExitNames
<1> HIDE DEF p2, q2
<1>5. Piece(p, cfg) /\ NoDrop(p) /\ \A n : Covers(p, n) <=> Covers(p2, n) \/ Covers(P("AppExit\\Default"), n)
  BY <1>1, <1>3, Joined DEF ExitNames
<1>6. Piece(q, cfg) /\ \A n : Covers(q, n) <=> Covers(q2, n) \/ Covers(Q("AppExit\\Default"), n)
  BY <1>2, <1>4, Joined DEF ExitNames
<1> HIDE DEF p, q
<1>7. \A n \in ExitNames : cfg[n] # None => Covers(p, n)
  BY <1>1, <1>3, <1>5 DEF ExitNames
<1>8. \A n \in ExitNames : cfg[n] = None /\ r[n] # None => Covers(q, n)
  BY <1>2, <1>4, <1>6 DEF ExitNames
<1>9. \A n \in ExitNames : /\ [m \in Names |-> PutWanted(cfg, m)][n] = P(n)
                            /\ [m \in Names |-> DelStale(r, cfg, m)][n] = Q(n)
  BY DEF Names, P, Q
<1> QED
  BY <1>5, <1>6, <1>7, <1>8, <1>9 DEF EachExit, ExitNames, p, p2, q, q2

\* Phase 2a of write_into_key: the wanted actions are written before the stale ones go.
LEMMA ExitCallsFacts ==
    ASSUME NEW r, NEW cfg \in Registry
    PROVE  /\ Piece(ExitCalls(r, cfg), cfg)
           /\ cfg["AppExit\\"] # None => NamedLast(ExitCalls(r, cfg))
           /\ \A n \in ExitNames : r[n] = cfg[n] \/ Covers(ExitCalls(r, cfg), n)
<1>1. CASE \A n \in ExitNames : cfg[n] = None
  <2>0. ~(cfg["AppExit\\"] # None)
    BY <1>1 DEF ExitNames
  <2>1. CASE ExistingExits(r) = {}
    <3>1. ExitCalls(r, cfg) = <<>>
      BY <1>1, <2>1 DEF ExitCalls
    <3> QED
      BY <1>1, <2>0, <2>1, <3>1, Nothing DEF ExistingExits
  <2>2. CASE ExistingExits(r) # {}
    <3> DEFINE v == None
               p == <<[names |-> ExitNames, value |-> v]>>
    <3>1. ExitCalls(r, cfg) = p
      BY <1>1, <2>2 DEF ExitCalls, Del
    <3>2. Piece(p, cfg) /\ \A n : Covers(p, n) <=> n \in ExitNames
      <4>1. ExitNames \in SUBSET Names /\ v \in Values \cup {None, Bad} /\ \A n \in ExitNames : cfg[n] = v
        BY <1>1 DEF Names
      <4> QED
        BY <4>1, Single
    <3> HIDE DEF p
    <3> QED
      BY <2>0, <3>1, <3>2
  <2> QED
    BY <2>1, <2>2
<1>2. CASE ~\A n \in ExitNames : cfg[n] = None
  <2> DEFINE Wanted == [n \in Names |-> PutWanted(cfg, n)]
             Stale == [n \in Names |-> DelStale(r, cfg, n)]
             p == EachExit(Wanted)
             q == EachExit(Stale)
  <2>1. ExitCalls(r, cfg) = p \o q
    BY <1>2 DEF ExitCalls
  <2>2. /\ Piece(p, cfg) /\ NoDrop(p) /\ Piece(q, cfg)
        /\ \A n \in ExitNames : cfg[n] # None => Covers(p, n)
        /\ \A n \in ExitNames : cfg[n] = None /\ r[n] # None => Covers(q, n)
    BY ExitPieces
  <2> HIDE DEF p, q
  <2>3. /\ Piece(p \o q, cfg) /\ \A n : Covers(p \o q, n) <=> Covers(p, n) \/ Covers(q, n)
        /\ Covers(p, "AppExit\\") => NamedLast(p \o q)
    BY <2>2, Joined
  <2>4. "AppExit\\" \in ExitNames
    BY DEF ExitNames
  <2> QED
    BY <2>1, <2>2, <2>3, <2>4
<1> QED
  BY <1>1, <1>2

\* write_into_key leads to cfg.
LEMMA WritePlanLeads ==
    ASSUME NEW r, NEW cfg \in Registry, cfg["AppExit\\Default"] = None
    PROVE  WritePlan(r, cfg) \in Seq(Call) /\ Underway(r, WritePlan(r, cfg), cfg)
<1> DEFINE Wanted == [n \in Names |-> PutWanted(cfg, n)]
           Stale == [n \in Names |-> DelStale(r, cfg, n)]
           a == EachOwned(Wanted)
           b == ExitCalls(r, cfg)
           h1 == PutWanted(cfg, "AppEvents")
           h2 == DelStale(r, cfg, "AppEvents")
           h == h1 \o h2
           d == EachOwned(Stale)
           ab == a \o b
           abh == ab \o h
           p == abh \o d
<1>1. WritePlan(r, cfg) = p
  BY DEF WritePlan, HookCalls
<1>2. /\ Piece(a, cfg) /\ NoDrop(a) /\ Piece(d, cfg) /\ NoDrop(d)
      /\ \A n \in OwnedValues : cfg[n] # None => Covers(a, n)
      /\ \A n \in OwnedValues : cfg[n] = None /\ r[n] # None => Covers(d, n)
  BY OwnedCalls
<1>3. /\ Piece(b, cfg) /\ (cfg["AppExit\\"] # None => NamedLast(b))
      /\ \A n \in ExitNames : r[n] = cfg[n] \/ Covers(b, n)
  BY ExitCallsFacts
<1>e. "AppEvents" \in Names /\ "AppEvents" # "AppExit\\Default"
  BY DEF Names
<1>4. /\ Piece(h1, cfg) /\ NoDrop(h1) /\ (cfg["AppEvents"] # None => Covers(h1, "AppEvents"))
      /\ Piece(h2, cfg) /\ NoDrop(h2)
      /\ cfg["AppEvents"] = None /\ r["AppEvents"] # None => Covers(h2, "AppEvents")
  BY <1>e, PutPiece, DelPiece
<1> HIDE DEF a, b, d, h1, h2
<1>5. /\ Piece(h, cfg) /\ NoDrop(h)
      /\ r["AppEvents"] = cfg["AppEvents"] \/ Covers(h, "AppEvents")
  BY <1>4, Joined
<1> HIDE DEF h
<1>6. /\ Piece(ab, cfg) /\ (cfg["AppExit\\"] # None => NamedLast(ab))
      /\ \A n : Covers(ab, n) <=> Covers(a, n) \/ Covers(b, n)
  BY <1>2, <1>3, Joined, NoDropIsLast
<1> HIDE DEF ab
<1>7. /\ Piece(abh, cfg) /\ (cfg["AppExit\\"] # None => NamedLast(abh))
      /\ \A n : Covers(abh, n) <=> Covers(ab, n) \/ Covers(h, n)
  BY <1>5, <1>6, Joined, NoDropIsLast
<1> HIDE DEF abh
<1>8. /\ Piece(p, cfg) /\ (cfg["AppExit\\"] # None => NamedLast(p))
      /\ \A n : Covers(p, n) <=> Covers(abh, n) \/ Covers(d, n)
  BY <1>2, <1>7, Joined, NoDropIsLast
<1> HIDE DEF p
<1>9. \A n \in Names : r[n] = cfg[n] \/ Covers(p, n)
  <2>1. \A n \in OwnedValues : r[n] = cfg[n] \/ Covers(p, n)
    BY <1>2, <1>6, <1>7, <1>8
  <2>2. \A n \in ExitNames : r[n] = cfg[n] \/ Covers(p, n)
    BY <1>3, <1>6, <1>7, <1>8
  <2>3. r["AppEvents"] = cfg["AppEvents"] \/ Covers(p, "AppEvents")
    BY <1>5, <1>7, <1>8
  <2> QED
    BY <2>1, <2>2, <2>3 DEF Names
<1> QED
  BY <1>1, <1>8, <1>9 DEF Piece, Underway

\* set_value_in_key leads to SetGoal, and never comes near the subkeys.
LEMMA SetPlanLeads ==
    ASSUME NEW r \in Registry, NEW n \in OwnedValues, NEW v \in Values \cup {None}
    PROVE  /\ SetPlan(n, v) \in Seq(Call) /\ SetGoal(r, n, v) \in Registry
           /\ Underway(r, SetPlan(n, v), SetGoal(r, n, v))
<1> DEFINE g == SetGoal(r, n, v)
           p == SetPlan(n, v)
<1>1. n \in Names /\ n \notin ExitNames /\ "AppStdoutShareMode" \in Names \ ExitNames
  BY DEF OwnedValues, Names, ExitNames
<1>2. g \in Registry /\ g[n] = v
  BY <1>1 DEF SetGoal, Registry
<1>3. \A m \in Names : \/ g[m] = r[m] \/ m = n
                       \/ v = None /\ n = "AppStdout" /\ m = "AppStdoutShareMode" /\ g[m] = None
  BY DEF SetGoal
<1>4. v = None /\ n = "AppStdout" => g["AppStdoutShareMode"] = None
  BY <1>1 DEF SetGoal
<1>5. \A m \in ExitNames : g[m] = r[m]
  BY <1>1, <1>3 DEF Names
<1> HIDE DEF g
<1>s. /\ Piece(<<[names |-> {n}, value |-> v]>>, g)
      /\ \A m : Covers(<<[names |-> {n}, value |-> v]>>, m) <=> m \in {n}
  <2>1. {n} \in SUBSET Names /\ v \in Values \cup {None, Bad} /\ \A m \in {n} : g[m] = v
    BY <1>1, <1>2
  <2> QED
    BY <2>1, Single
<1>6. Piece(p, g) /\ (\A m : Covers(p, m) => m \notin ExitNames) /\ (\A m \in Names : r[m] = g[m] \/ Covers(p, m))
  <2>1. CASE v # None
    BY <1>1, <1>3, <1>s, <2>1 DEF SetPlan, Put
  <2>2. CASE v = None /\ n # "AppStdout"
    BY <1>1, <1>3, <1>s, <2>2 DEF SetPlan, Del
  <2>3. CASE v = None /\ n = "AppStdout"
    <3> DEFINE w == None
               ns == {"AppStdoutShareMode"}
               q == <<[names |-> ns, value |-> w]>>
               o == <<[names |-> {n}, value |-> v]>>
    <3>1. Piece(q, g) /\ \A m : Covers(q, m) <=> m \in ns
      <4>1. ns \in SUBSET Names /\ w \in Values \cup {None, Bad} /\ \A m \in ns : g[m] = w
        BY <1>1, <1>4, <2>3
      <4> QED
        BY <4>1, Single
    <3>2. p = o \o q
      BY <2>3 DEF SetPlan, Del
    <3>3. Piece(o, g) /\ \A m : Covers(o, m) <=> m \in {n}
      BY <1>s
    <3> HIDE DEF o, q
    <3>4. Piece(o \o q, g) /\ \A m : Covers(o \o q, m) <=> Covers(o, m) \/ Covers(q, m)
      BY <3>1, <3>3, Joined
    <3> QED
      BY <1>1, <1>3, <2>3, <3>1, <3>2, <3>3, <3>4
  <2> QED
    BY <2>1, <2>2, <2>3
<1> HIDE DEF p
<1>7. LeavesExits(p)
  BY <1>6 DEF LeavesExits, Covers
<1>8. NamedLast(p)
  BY <1>7 DEF LeavesExits, NamedLast, DropsNamed, ExitNames
<1> QED
  BY <1>2, <1>6, <1>7, <1>8 DEF Piece, Underway, g, p

\* A set is one call, a clear of a stream two.
LEMMA SetPlanLength ==
    ASSUME NEW n \in OwnedValues, NEW v \in Values \cup {None}
    PROVE  Len(SetPlan(n, v)) \in {1, 2}
BY DEF SetPlan, Put, Del

\* scrub_managed leads to nothing.
LEMMA ScrubPlanLeads ==
    ASSUME NEW r \in Registry
    PROVE  ScrubPlan \in Seq(Call) /\ Underway(r, ScrubPlan, NoValues)
<1> DEFINE g == NoValues
           S(ns) == <<[names |-> ns, value |-> None]>>
           R(n) == S({n})
           x == S(ExitNames)
           y == S({"AppEvents"})
           xy == x \o y
           o2 == R("Application") \o R("AppDirectory")
           o3 == o2 \o R("AppStdout")
           o == o3 \o R("AppStdoutShareMode")
           p == xy \o o
<1>0. \A n \in Names : g[n] = None
  BY DEF NoValues
<1>1. ScrubPlan = p
  BY DEF ScrubPlan, Del, EachOwned, Names, OwnedValues
<1>2. ASSUME NEW ns \in SUBSET Names
      PROVE  Piece(S(ns), g) /\ \A n : Covers(S(ns), n) <=> n \in ns
  <2> DEFINE v == None
  <2>1. v \in Values \cup {None, Bad} /\ \A n \in ns : g[n] = v
    BY <1>0
  <2> QED
    BY <2>1, Single
<1>3. Piece(x, g) /\ \A n : Covers(x, n) <=> n \in ExitNames
  BY <1>2 DEF Names
<1>4. Piece(y, g) /\ \A n : Covers(y, n) <=> n = "AppEvents"
  <2>1. {"AppEvents"} \in SUBSET Names
    BY DEF Names
  <2> QED
    BY <1>2, <2>1
<1>5. \A m \in OwnedValues : Piece(R(m), g) /\ \A n : Covers(R(m), n) <=> n = m
  <2> TAKE m \in OwnedValues
  <2>1. {m} \in SUBSET Names
    BY DEF Names
  <2> QED
    BY <1>2, <2>1
<1> HIDE DEF R, x, y, g
<1>6. Piece(xy, g) /\ \A n : Covers(xy, n) <=> Covers(x, n) \/ Covers(y, n)
  BY <1>3, <1>4, Joined
<1>7. Piece(o2, g) /\ \A n : Covers(o2, n) <=> Covers(R("Application"), n) \/ Covers(R("AppDirectory"), n)
  BY <1>5, Joined DEF OwnedValues
<1> HIDE DEF xy, o2
<1>8. Piece(o3, g) /\ \A n : Covers(o3, n) <=> Covers(o2, n) \/ Covers(R("AppStdout"), n)
  BY <1>5, <1>7, Joined DEF OwnedValues
<1> HIDE DEF o3
<1>9. Piece(o, g) /\ \A n : Covers(o, n) <=> Covers(o3, n) \/ Covers(R("AppStdoutShareMode"), n)
  BY <1>5, <1>8, Joined DEF OwnedValues
<1> HIDE DEF o
<1>10. Piece(p, g) /\ \A n : Covers(p, n) <=> Covers(xy, n) \/ Covers(o, n)
  BY <1>6, <1>9, Joined
<1> HIDE DEF p
<1>11. \A n \in Names : Covers(p, n)
  BY <1>3, <1>4, <1>5, <1>6, <1>7, <1>8, <1>9, <1>10 DEF Names, OwnedValues
<1>12. g["AppExit\\"] = None /\ g["AppExit\\Default"] = None
  BY <1>0 DEF Names, ExitNames
<1> QED
  BY <1>1, <1>10, <1>11, <1>12 DEF Underway, Piece, g

-----------------------------------------------------------------------------
(* One call, and readings *)

\* The next call of a plan leads on, and takes away nothing that both ends have.
LEMMA StepUnderway ==
    ASSUME NEW r \in Registry, NEW g \in Registry, NEW p \in Seq(Call), p # <<>>,
           Underway(r, p, g)
    PROVE  /\ Tail(p) \in Seq(Call) /\ Apply(r, Head(p)) \in Registry
           /\ Underway(Apply(r, Head(p)), Tail(p), g)
           /\ HasMarker(g) /\ HasMarker(r) => HasMarker(Apply(r, Head(p)))
           /\ \A n \in Names : Config(g)[n] # None /\ Config(r)[n] # None
                                  => Config(Apply(r, Head(p)))[n] # None
<1> DEFINE call == Head(p)
           q == Tail(p)
           s == Apply(r, call)
<1>1. /\ q \in Seq(Call) /\ call = p[1] /\ call \in Call
      /\ 1 \in DOMAIN p /\ DOMAIN p \subseteq Nat \ {0}
  BY HeadTailProperties, EmptySeq
<1>2. \A i \in DOMAIN q : i + 1 \in DOMAIN p /\ q[i] = p[i + 1]
  BY HeadTailProperties
<1>3. \A i \in DOMAIN p : i = 1 \/ (i - 1 \in DOMAIN q /\ q[i - 1] = p[i])
  BY HeadTailProperties, EmptySeq
<1>n. DOMAIN q \subseteq Nat \ {0}
  BY HeadTailProperties
<1>4. s \in Registry /\ \A n \in Names : s[n] = IF n \in call.names THEN call.value ELSE r[n]
  BY <1>1 DEF Apply, Registry, Call
<1>5. \A n \in call.names : call.value = g[n]
  BY <1>1 DEF Underway, Toward
<1>6. \A n \in Names : s[n] = IF n \in call.names THEN g[n] ELSE r[n]
  BY <1>4, <1>5
<1> HIDE DEF s, q, call
<1>7. Toward(q, g)
  BY <1>2 DEF Underway, Toward
<1>8. \A n \in Names : s[n] = g[n] \/ Covers(q, n)
  BY <1>1, <1>3, <1>6 DEF Underway, Covers
<1>9. ASSUME g["AppExit\\"] # None, s["AppExit\\"] = None
      PROVE  NamedLast(p) /\ "AppExit\\" \notin call.names /\ r["AppExit\\"] = None
  BY <1>6, <1>9 DEF Underway, Names, ExitNames
<1>10. ASSUME NamedLast(p), "AppExit\\" \notin call.names PROVE NamedLast(q)
  <2> SUFFICES ASSUME NEW i \in DOMAIN q, DropsNamed(q[i])
               PROVE  \E j \in DOMAIN q : j < i /\ "AppExit\\" \in q[j].names
    BY DEF NamedLast
  <2>1. PICK j \in DOMAIN p : j < i + 1 /\ "AppExit\\" \in p[j].names
    BY <1>2, <1>10 DEF NamedLast
  <2>2. j # 1
    BY <1>1, <1>10, <2>1
  <2>3. j - 1 \in DOMAIN q /\ q[j - 1] = p[j] /\ j - 1 < i
    BY <1>1, <1>3, <1>n, <2>1, <2>2
  <2> QED
    BY <2>1, <2>3
<1>11. LeavesExits(p) => LeavesExits(q)
  BY <1>2 DEF LeavesExits
<1>12. Underway(s, q, g)
  BY <1>7, <1>8, <1>9, <1>10, <1>11 DEF Underway
<1>13. HasMarker(g) /\ HasMarker(r) => HasMarker(s)
  BY <1>6 DEF HasMarker, Names, OwnedValues
<1>14. ASSUME NEW n \in Names, Config(g)[n] # None, Config(r)[n] # None
       PROVE  Config(s)[n] # None
  <2>1. CASE n = "AppExit\\"
    <3>0. {"AppExit\\", "AppExit\\Default"} \subseteq Names /\ {"AppExit\\", "AppExit\\Default"} \subseteq ExitNames
      BY DEF Names, ExitNames
    <3>1. /\ g["AppExit\\"] # None \/ g["AppExit\\Default"] # None
          /\ r["AppExit\\"] # None \/ r["AppExit\\Default"] # None
      BY <1>14, <2>1, <3>0 DEF Config
    <3>2. s["AppExit\\"] # None \/ s["AppExit\\Default"] # None
      <4>1. CASE g["AppExit\\Default"] # None
        <5>1. LeavesExits(p)
          BY <4>1 DEF Underway
        <5>2. call.names \cap ExitNames = {}
          BY <1>1, <5>1 DEF LeavesExits
        <5> QED
          BY <1>6, <3>0, <3>1, <5>2
      <4>2. CASE g["AppExit\\"] # None /\ r["AppExit\\"] # None
        BY <1>6, <3>0, <4>2
      <4>3. CASE g["AppExit\\"] # None /\ r["AppExit\\"] = None
        <5>1. NamedLast(p)
          BY <4>3 DEF Underway
        <5>2. ~DropsNamed(call)
          BY <1>1, <5>1 DEF NamedLast
        <5> QED
          BY <1>4, <3>0, <3>1, <4>3, <5>2 DEF DropsNamed
      <4> QED
        BY <3>1, <4>1, <4>2, <4>3
    <3> QED
      BY <2>1, <3>0, <3>2 DEF Config
  <2>2. CASE n # "AppExit\\"
    <3>1. n # "AppExit\\Default" /\ g[n] # None /\ r[n] # None
      BY <1>14, <2>2 DEF Config
    <3>2. s[n] # None
      BY <1>6, <3>1
    <3>3. n \in ReadNames(g) /\ n \in ReadNames(r)
      BY <1>14, <2>2, <3>1 DEF Config
    <3>4. n \in ReadNames(s)
      <4>1. CASE n # "AppStdoutShareMode"
        BY <4>1 DEF ReadNames
      <4>2. CASE n = "AppStdoutShareMode"
        <5>1. g["AppStdout"] # None /\ r["AppStdout"] # None
          BY <3>3, <4>2 DEF ReadNames
        <5>2. s["AppStdout"] # None
          BY <1>6, <5>1 DEF Names, OwnedValues
        <5> QED
          BY <5>2 DEF ReadNames
      <4> QED
        BY <4>1, <4>2
    <3> QED
      BY <2>2, <3>1, <3>2, <3>4 DEF Config
  <2> QED
    BY <2>1, <2>2
<1> QED
  BY <1>1, <1>4, <1>12, <1>13, <1>14 DEF s, q, call

\* A plan that has come to its end has reached its goal.
LEMMA DoneUnderway ==
    ASSUME NEW r \in Registry, NEW g \in Registry, Underway(r, <<>>, g)
    PROVE  r = g
<1>1. \A n : ~Covers(<<>>, n)
  BY Nothing
<1>2. \A n \in Names : r[n] = g[n]
  BY <1>1 DEF Underway
<1> QED
  BY <1>2 DEF Registry

\* What is read is a configuration with one spelling of the default action, and is
\* read as itself.
LEMMA ConfigFacts ==
    ASSUME NEW r \in Registry
    PROVE  /\ Config(r) \in Registry /\ Config(r)["AppExit\\Default"] = None
           /\ Config(Config(r)) = Config(r)
           /\ Readable(r) => HasMarker(Config(r)) /\ HasMarker(r)
<1> DEFINE c == Config(r)
<1>0. Names = {"Application", "AppDirectory", "AppStdout", "AppStdoutShareMode",
               "AppExit\\1", "AppExit\\", "AppExit\\Default", "AppEvents"}
  BY DEF Names, OwnedValues, ExitNames
<1>1. c \in Registry
  BY <1>0 DEF Config, Registry
<1>2. /\ c["AppExit\\Default"] = None /\ c["Application"] = r["Application"]
      /\ c["AppStdout"] = r["AppStdout"]
  BY <1>0 DEF Config, ReadNames
<1>3. ReadNames(c) = ReadNames(r)
  BY <1>2 DEF ReadNames
<1>4. \A n \in Names : Config(c)[n] = c[n]
  <2> TAKE n \in Names
  <2>1. CASE n = "AppExit\\"
    BY <1>2, <2>1 DEF Config
  <2>2. CASE n = "AppExit\\Default"
    BY <1>2, <2>2 DEF Config
  <2>3. CASE n \notin {"AppExit\\", "AppExit\\Default"} /\ n \in ReadNames(r)
    BY <1>3, <2>3 DEF Config
  <2>4. CASE n \notin {"AppExit\\", "AppExit\\Default"} /\ n \notin ReadNames(r)
    BY <1>3, <2>4 DEF Config
  <2> QED
    BY <2>1, <2>2, <2>3, <2>4
<1>5. Config(c) \in Registry
  <2> HIDE DEF c
  <2> QED
    BY <1>0, <1>1 DEF Config, Registry
<1>6. Config(c) = c
  <2> HIDE DEF c
  <2> QED
    BY <1>1, <1>4, <1>5 DEF Registry
<1>7. Readable(r) => r["Application"] # None /\ r["Application"] # Bad
  <2>1. "Application" \in ReadNames(r) \ (ExitNames \cup {"AppEvents"})
    BY <1>0 DEF ReadNames, ExitNames
  <2> QED
    BY <2>1 DEF Readable, Unreadable, Native, ScalarsDecode
<1> QED
  BY <1>1, <1>2, <1>6, <1>7 DEF HasMarker

\* Nothing reads as nothing.
LEMMA ConfigNoValues ==
    NoValues \in Registry /\ Config(NoValues) = NoValues /\ \A n \in Names : Config(NoValues)[n] = None
<1>0. Names = {"Application", "AppDirectory", "AppStdout", "AppStdoutShareMode",
               "AppExit\\1", "AppExit\\", "AppExit\\Default", "AppEvents"}
  BY DEF Names, OwnedValues, ExitNames
<1>1. NoValues \in Registry /\ \A n \in Names : NoValues[n] = None
  BY DEF NoValues, Registry
<1>2. \A n \in Names : Config(NoValues)[n] = None
  BY <1>0, <1>1 DEF Config
<1> QED
  BY <1>1, <1>2, ConfigFacts DEF Registry

\* The configuration that an edit or a recovery update writes.
LEMMA MergedFacts ==
    ASSUME NEW r \in Registry, NEW q \in Requests, TouchesManaged(q), RequestOK(q)
    PROVE  /\ Merged(q, Config(r)) \in Registry
           /\ Merged(q, Config(r))["AppExit\\Default"] = None
           /\ Readable(r) /\ Preflight(Merged(q, Config(r))) => HasMarker(Merged(q, Config(r)))
<1> DEFINE c == Config(r)
           m == Merged(q, c)
<1>0. Names = {"Application", "AppDirectory", "AppStdout", "AppStdoutShareMode",
               "AppExit\\1", "AppExit\\", "AppExit\\Default", "AppEvents"}
  BY DEF Names, OwnedValues, ExitNames
<1>1. c \in Registry /\ c["AppExit\\Default"] = None /\ (Readable(r) => HasMarker(c))
  BY ConfigFacts
<1>v. None \notin Values /\ Bad \notin Values /\ None # Bad
  BY ConfigAssumption
<1> HIDE DEF c
<1>2. CASE q.op = "edit"
  <2>1. EditRequest(q)
    BY <1>2, OpsAssumption
  <2>2. m = MergeEdit(c, q.change)
    BY <1>2 DEF Merged
  <2>3. /\ DOMAIN q.change \subseteq {"Application", "AppDirectory", "AppStdout"}
        /\ \A n \in DOMAIN q.change : q.change[n] \in Values \cup {None}
    BY <2>1 DEF EditRequest, PathNames
  <2>4. m \in Registry
    BY <1>1, <2>2, <2>3 DEF MergeEdit, Registry
  <2>5. m["AppExit\\Default"] = None
    BY <1>0, <1>1, <2>2, <2>3 DEF MergeEdit
  <2>6. m["Application"] \in Values \cup {None} \/ m["Application"] = c["Application"]
    BY <1>0, <2>2, <2>3 DEF MergeEdit
  <2> HIDE DEF m
  <2> QED
    BY <1>1, <1>v, <2>4, <2>5, <2>6 DEF HasMarker, Preflight, m, c
<1>3. CASE q.op = "recovery"
  <2>1. RecoveryRequest(q) /\ RecoveryRequestOK(q)
    BY <1>3, OpsAssumption DEF RequestOK
  <2>2. m = MergeRecovery(c, q.policy)
    BY <1>3 DEF Merged
  <2>3. /\ DOMAIN q.policy \subseteq {"AppExit\\", "AppExit\\1"}
        /\ \A n \in DOMAIN q.policy : q.policy[n] \in Values
    BY <2>1 DEF RecoveryRequest, RecoveryRequestOK
  <2>4. m \in Registry
    BY <1>1, <2>2, <2>3 DEF MergeRecovery, Registry
  <2>5. m["AppExit\\Default"] = None
    BY <1>0, <2>2, <2>3 DEF MergeRecovery, ExitNames
  <2>6. m["Application"] = c["Application"]
    BY <1>0, <2>2, <2>3 DEF MergeRecovery, ExitNames
  <2> HIDE DEF m
  <2> QED
    BY <1>1, <2>4, <2>5, <2>6 DEF HasMarker, m, c
<1> QED
  BY <1>2, <1>3 DEF TouchesManaged

-----------------------------------------------------------------------------
(* Processes *)

Others(c) == \A d \in Clients \ {c} : cl'[d] = cl[d]

\* No process that works is Idle.
LEMMA JobNotIdle == \A j \in Job : j # Idle
<1> SUFFICES ASSUME NEW j \in Job, j = Idle PROVE FALSE
  OBVIOUS
<1>1. j.pc \in Pcs
  BY DEF Job
<1>2. j.pc = "idle"
  BY DEF Idle
<1> QED
  BY <1>1, <1>2 DEF Pcs

\* A process at some step works, and its place tells whether it owns the mutex.
LEMMA Working ==
    ASSUME DataType, PlaceInv, LockInv, NEW c \in Clients, cl[c].pc \in Pcs
    PROVE  /\ cl[c] \in Job /\ cl[c] # Idle /\ Place(cl[c])
           /\ cl[c].pc \in {"read", "open", "create", "write", "undo", "set", "describe_new",
                            "configure", "uninstall", "delete", "purge", "scrub"} => lock = c
           /\ cl[c].pc \in UnlockedPcs \cup {"lock"} => lock # c
           /\ cl[c].pc \in {"native", "describe"} => (lock = c <=> cl[c].req.op = "edit")
           /\ cl[c].pc = "query" => (lock = c <=> cl[c].req.op = "remove")
<1>1. cl[c] # Idle
  BY DEF Idle, Pcs
<1>2. cl[c] \in Job
  BY <1>1 DEF DataType
<1>3. Place(cl[c])
  BY <1>1 DEF PlaceInv
<1>4. lock = c <=> cl[c].req.op \in LockedOps /\ cl[c].pc # "lock"
  BY <1>1 DEF LockInv, Owns
<1> QED
  BY <1>1, <1>2, <1>3, <1>4 DEF Place, UnlockedPcs, LockedOps, UnlockedOps, Controls

\* Go, and the end of an operation.
LEMMA Went ==
    ASSUME DataType, NEW c \in Clients, cl[c] \in Job, NEW pc \in Pcs, Go(c, pc)
    PROVE  /\ cl' \in [Clients -> {Idle} \cup Job] /\ Others(c) /\ cl'[c] \in Job
           /\ cl'[c].pc = pc /\ cl'[c].req = cl[c].req /\ cl'[c].plan = cl[c].plan
           /\ cl'[c].goal = cl[c].goal /\ cl'[c].orig = cl[c].orig /\ cl'[c].failed = cl[c].failed
<1>1. cl'[c] = [cl[c] EXCEPT !.pc = pc] /\ Others(c)
  BY DEF Go, DataType, Others
<1>2. cl'[c] \in Job
  BY <1>1 DEF Job
<1>3. cl' \in [Clients -> {Idle} \cup Job]
  BY <1>2 DEF Go, DataType
<1> QED
  BY <1>1, <1>2, <1>3 DEF Job

LEMMA Ended ==
    ASSUME DataType, NEW c \in Clients, Done(c)
    PROVE  cl' \in [Clients -> {Idle} \cup Job] /\ Others(c) /\ cl'[c] = Idle
  BY DEF DataType, Done, Others

\* What agrees with what was told keeps what is to be kept.
LEMMA AgreeKept ==
    ASSUME NEW w, Agree(w) PROVE Kept(w)
  BY DEF Agree, Kept

\* A step of a process that has not the mutex.
LEMMA Aside ==
    ASSUME IInv, NEW c \in Clients, Others(c), DataType', View' = View, lock' = lock,
           ~Owns(cl[c]), ~Owns(cl'[c]), cl'[c] # Idle => Place(cl'[c])
    PROVE  IInv'
<1>1. PlaceInv'
  BY DEF IInv, PlaceInv, Others
<1>2. LockInv'
  BY DEF IInv, LockInv, Others
<1>3. Gone(View)' /\ Kept(View)'
  BY DEF IInv
<1>4. lock # c
  BY DEF IInv, LockInv
<1>5. HoldInv'
  <2>1. CASE lock = NoOne
    BY <2>1 DEF IInv, HoldInv
  <2>2. CASE lock # NoOne
    <3>1. lock \in Clients \ {c}
      BY <1>4, <2>2 DEF IInv, DataType
    <3>2. cl'[lock'] = cl[lock]
      BY <3>1 DEF Others
    <3> QED
      BY <2>2, <3>2 DEF IInv, HoldInv
  <2> QED
    BY <2>1, <2>2
<1> QED
  BY <1>1, <1>2, <1>3, <1>5 DEF IInv

\* A step of the owner, inside.
LEMMA Inside ==
    ASSUME IInv, NEW c \in Clients, lock = c, lock' = c, Others(c), DataType',
           Owns(cl'[c]), Place(cl'[c]), Gone(View'), Kept(View'), Holding(cl'[c], View')
    PROVE  IInv'
<1>0. c # NoOne
  BY OpsAssumption
<1>1. PlaceInv'
  BY DEF IInv, PlaceInv, Others
<1>2. LockInv'
  BY DEF IInv, LockInv, Others
<1>3. HoldInv'
  BY <1>0 DEF HoldInv
<1> QED
  BY <1>1, <1>2, <1>3 DEF IInv

\* The owner returns.
LEMMA Leaves ==
    ASSUME IInv, NEW c \in Clients, lock = c, lock' = NoOne, Others(c), DataType',
           cl'[c] = Idle, Gone(View'), Agree(View')
    PROVE  IInv'
<1>0. \A d \in Clients : d # NoOne
  BY OpsAssumption
<1>1. PlaceInv'
  BY DEF IInv, PlaceInv, Others
<1>2. LockInv'
  BY <1>0 DEF IInv, LockInv, Others, Owns
<1>3. HoldInv'
  BY DEF HoldInv
<1>4. Kept(View')
  BY AgreeKept
<1> QED
  BY <1>1, <1>2, <1>3, <1>4 DEF IInv

\* The SCM record after one of the calls that change a field of it.
LEMMA ScmFacts ==
    /\ Absent \in ScmRecords /\ ~Absent.present
    /\ \A r \in ScmRecords : r.present \in BOOLEAN
    /\ \A r \in ScmRecords : r.present =>
         /\ r.native \in Values /\ r.disabled \in BOOLEAN
         /\ \A s \in ServiceStates :
              [r EXCEPT !.state = s] \in ScmRecords /\ [r EXCEPT !.state = s].present
         /\ [r EXCEPT !.runner = TRUE] \in ScmRecords /\ [r EXCEPT !.runner = TRUE].present
         /\ [r EXCEPT !.doomed = TRUE] \in ScmRecords /\ [r EXCEPT !.doomed = TRUE].present
         /\ \A v \in Values :
              [r EXCEPT !.description = v] \in ScmRecords /\ [r EXCEPT !.description = v].present
         /\ \A v \in Values, b \in BOOLEAN :
              /\ [r EXCEPT !.disabled = b, !.native = v] \in ScmRecords
              /\ [r EXCEPT !.disabled = b, !.native = v].present
<1>1. Absent \in ScmRecords /\ ~Absent.present
  BY DEF ScmRecords, Absent
<1>2. ASSUME NEW r \in ScmRecords, r.present
      PROVE  r \in [present : {TRUE}, runner : BOOLEAN, disabled : BOOLEAN, native : Values,
                    description : Values, state : ServiceStates, doomed : BOOLEAN]
  BY <1>1, <1>2, Zenon DEF ScmRecords
<1>3. ASSUME NEW r \in ScmRecords PROVE r.present \in BOOLEAN
  <2>1. CASE r = Absent
    <3>1. Absent.present = FALSE
      BY DEF Absent
    <3> QED
      BY <2>1, <3>1, Zenon
  <2>2. CASE r # Absent
    BY <2>2 DEF ScmRecords
  <2> QED
    BY <2>1, <2>2
<1> QED
  BY <1>1, <1>2, <1>3 DEF ScmRecords

\* A process without the mutex returns, or goes on.
LEMMA AsideReturns ==
    ASSUME IInv, NEW c \in Clients, ~Owns(cl[c]), Return(c), reg' = reg,
           scm' \in ScmRecords, scm'.present = scm.present
    PROVE  IInv'
<1>0. DataType
  BY DEF IInv
<1>1. cl' \in [Clients -> {Idle} \cup Job] /\ Others(c) /\ cl'[c] = Idle
  BY <1>0, Ended DEF Return
<1>2. lock # c
  BY DEF IInv, LockInv
<1>3. lock' = lock /\ torn' = torn /\ expected' = expected /\ intent' = intent
  BY <1>2 DEF Return, Release
<1>4. View' = View
  BY <1>3 DEF View
<1>5. DataType'
  BY <1>0, <1>1, <1>3 DEF DataType
<1>6. ~Owns(cl'[c])
  BY <1>1 DEF Owns
<1> QED
  BY <1>1, <1>3, <1>4, <1>5, <1>6, Aside

LEMMA AsideGoes ==
    ASSUME IInv, NEW c \in Clients, cl[c] \in Job, ~Owns(cl[c]), cl[c].req.op \notin LockedOps,
           NEW pc \in Pcs, Go(c, pc), reg' = reg, lock' = lock, UNCHANGED told,
           scm' \in ScmRecords, scm'.present = scm.present, Place(cl'[c])
    PROVE  IInv'
<1>0. DataType
  BY DEF IInv
<1>1. cl' \in [Clients -> {Idle} \cup Job] /\ Others(c) /\ cl'[c].req = cl[c].req
  BY <1>0, Went
<1>2. torn' = torn /\ expected' = expected /\ intent' = intent
  BY DEF told
<1>3. View' = View
  BY <1>2 DEF View
<1>4. DataType'
  BY <1>0, <1>1, <1>2 DEF DataType
<1>5. ~Owns(cl'[c])
  BY <1>1 DEF Owns
<1> QED
  BY <1>1, <1>3, <1>4, <1>5, Aside

\* The owner returns, with and without a warning.
LEMMA OwnerReturns ==
    ASSUME IInv, NEW c \in Clients, lock = c, Return(c), reg' \in Registry,
           scm' \in ScmRecords, ~scm'.present => reg' = NoValues,
           torn \/ reg' = expected
    PROVE  IInv'
<1>0. DataType
  BY DEF IInv
<1>1. cl' \in [Clients -> {Idle} \cup Job] /\ Others(c) /\ cl'[c] = Idle
  BY <1>0, Ended DEF Return
<1>2. lock' = NoOne /\ torn' = torn /\ expected' = expected /\ intent' = intent
  BY DEF Return, Release
<1>3. DataType'
  BY <1>0, <1>1, <1>2 DEF DataType
<1>4. Agree(View')
  BY <1>2 DEF Agree, View
<1>5. Gone(View')
  BY <1>4 DEF Gone, View
<1> QED
  BY <1>1, <1>2, <1>3, <1>4, <1>5, Leaves

\* It leaves some of its calls in effect, and says neither.
LEMMA OwnerReturnsPartial ==
    ASSUME IInv, NEW c \in Clients, lock = c, NEW e \in Registry, ReturnPartial(c, e),
           reg' \in Registry, scm' \in ScmRecords, ~scm'.present => reg' = NoValues,
           torn \/ reg' = e
    PROVE  IInv'
<1>0. DataType
  BY DEF IInv
<1>1. cl' \in [Clients -> {Idle} \cup Job] /\ Others(c) /\ cl'[c] = Idle
  BY <1>0, Ended DEF ReturnPartial
<1>2. lock' = NoOne /\ torn' = torn /\ expected' = e /\ intent' = intent
  BY DEF ReturnPartial, Release
<1>3. DataType'
  BY <1>0, <1>1, <1>2 DEF DataType
<1>4. Agree(View')
  BY <1>2 DEF Agree, View
<1>5. Gone(View')
  BY <1>4 DEF Gone, View
<1> QED
  BY <1>1, <1>2, <1>3, <1>4, <1>5, Leaves

LEMMA OwnerReturnsTorn ==
    ASSUME IInv, NEW c \in Clients, lock = c, ReturnTorn(c), reg' \in Registry,
           scm' \in ScmRecords, ~scm'.present => reg' = NoValues
    PROVE  IInv'
<1>0. DataType
  BY DEF IInv
<1>1. cl' \in [Clients -> {Idle} \cup Job] /\ Others(c) /\ cl'[c] = Idle
  BY <1>0, Ended DEF ReturnTorn
<1>2. lock' = NoOne /\ torn' = TRUE /\ expected' = expected /\ intent' = intent
  BY DEF ReturnTorn, Release
<1>3. DataType'
  BY <1>0, <1>1, <1>2 DEF DataType
<1>4. Agree(View')
  BY <1>2 DEF Agree, View
<1>5. Gone(View')
  BY <1>4 DEF Gone, View
<1> QED
  BY <1>1, <1>2, <1>3, <1>4, <1>5, Leaves

\* It reports success: the values are what the request meant.
LEMMA OwnerReportsOk ==
    ASSUME IInv, NEW c \in Clients, lock = c, cl[c] \in Job, NEW whole \in BOOLEAN,
           ReturnOk(c, whole), reg' = reg, scm' \in ScmRecords, scm'.present = scm.present,
           scm.present /\ whole /\ torn => reg = cl[c].goal,
           scm.present /\ ~torn => reg = Intended(cl[c].req, expected)
    PROVE  IInv'
<1>0. DataType /\ Gone(View)
  BY DEF IInv
<1>1. cl' \in [Clients -> {Idle} \cup Job] /\ Others(c) /\ cl'[c] = Idle
  BY <1>0, Ended DEF ReturnOk
<1>2. lock' = NoOne /\ torn' = (torn /\ ~whole) /\ intent' = intent
  BY DEF ReturnOk, Release
<1>3. expected' = IF ~scm.present THEN NoValues
                  ELSE IF torn THEN cl[c].goal ELSE Intended(cl[c].req, expected)
  BY DEF ReturnOk
<1>4. ~scm.present => reg = NoValues
  BY <1>0 DEF Gone, View
<1>5. torn \in BOOLEAN /\ torn' \in BOOLEAN
  BY <1>0, <1>2, Zenon DEF DataType
<1>6. torn' \/ reg' = expected'
  BY <1>2, <1>3, <1>4, <1>5
<1>7. expected' \in Registry
  <2>1. cl[c].goal \in Registry /\ reg \in Registry /\ NoValues \in Registry
    BY <1>0, ConfigNoValues DEF DataType, Job
  <2> QED
    BY <1>3, <2>1
<1>8. DataType'
  BY <1>0, <1>1, <1>2, <1>5, <1>7 DEF DataType
<1>9. Agree(View')
  BY <1>6 DEF Agree, View
<1>10. Gone(View')
  BY <1>4, <1>9 DEF Gone, View
<1> QED
  BY <1>1, <1>2, <1>8, <1>9, <1>10, Leaves

-----------------------------------------------------------------------------
(* The mutex, the service, and the operations that take no mutex *)

LEMMA BeginStep ==
    ASSUME IInv, NEW c \in Clients, NEW r \in Requests, Begin(c, r)
    PROVE  IInv'
<1> DEFINE j == [pc |-> IF r.op \in LockedOps THEN "lock"
                        ELSE IF r.op = "native" THEN "native" ELSE "query",
                 req |-> r,
                 plan |-> <<>>, goal |-> reg, orig |-> reg, failed |-> FALSE]
<1>0. DataType
  BY DEF IInv
<1>1. cl[c] = Idle /\ RequestOK(r) /\ cl' = [cl EXCEPT ![c] = j]
  BY DEF Begin
<1>2. UNCHANGED <<scm, reg, lock, expected, torn, intent>>
  BY DEF Begin, told
<1>3. j \in Job
  <2>1. <<>> \in Seq(Call)
    BY EmptySeq
  <2> QED
    BY <1>0, <2>1 DEF Job, DataType, Pcs
<1>4. r.op \in LockedOps \cup UnlockedOps
  BY OpsAssumption
<1>5. Place(j) /\ ~Owns(j)
  BY <1>1, <1>4 DEF Place, Owns, UnlockedPcs, LockedOps, UnlockedOps, Controls
<1> HIDE DEF j
<1>6. Others(c) /\ cl'[c] = j /\ cl' \in [Clients -> {Idle} \cup Job]
  BY <1>0, <1>1, <1>3 DEF DataType, Others
<1>7. DataType'
  BY <1>0, <1>2, <1>6 DEF DataType
<1>8. View' = View
  BY <1>2 DEF View
<1>9. ~Owns(cl[c])
  BY <1>1 DEF Owns
<1> QED
  BY <1>2, <1>5, <1>6, <1>7, <1>8, <1>9, Aside

LEMMA AcquireStep ==
    ASSUME IInv, NEW c \in Clients, Acquire(c)
    PROVE  IInv'
<1>0. DataType /\ PlaceInv /\ LockInv /\ Gone(View) /\ Kept(View) /\ HoldInv
  BY DEF IInv
<1>1. cl[c].pc = "lock" /\ lock = NoOne /\ lock' = c
  BY DEF Acquire
<1>2. cl[c] \in Job /\ cl[c] # Idle /\ Place(cl[c])
  BY <1>0, <1>1, Working DEF Pcs
<1> DEFINE pc == IF cl[c].req.op \in {"edit", "recovery"} THEN "read"
                 ELSE IF cl[c].req.op = "set" THEN "open"
                 ELSE IF cl[c].req.op = "install" THEN "create"
                 ELSE "query"
<1>3. pc \in Pcs /\ Go(c, pc)
  BY DEF Acquire, Pcs
<1>4. pc \in {"read", "open", "create", "query"}
  OBVIOUS
<1>5. /\ cl' \in [Clients -> {Idle} \cup Job] /\ Others(c) /\ cl'[c] \in Job
      /\ cl'[c].pc = pc /\ cl'[c].req = cl[c].req
  BY <1>0, <1>2, <1>3, Went
<1>6. UNCHANGED <<scm, reg, expected, torn, intent>>
  BY DEF Acquire, told, world
<1>7. DataType'
  BY <1>0, <1>1, <1>5, <1>6 DEF DataType
<1>8. View' = View
  BY <1>6 DEF View
<1>9. Agree(View)
  BY <1>0, <1>1 DEF HoldInv
<1>10. cl[c].req.op \in LockedOps
  BY <1>1, <1>2 DEF Place
<1>11. Place(cl'[c])
  BY <1>2, <1>5, <1>10 DEF Place, LockedOps, UnlockedPcs
<1>12. Owns(cl'[c])
  <2>1. cl'[c] # Idle
    BY <1>5, JobNotIdle
  <2> QED
    BY <1>4, <1>5, <1>10, <2>1 DEF Owns
<1>13. Holding(cl'[c], View')
  <2> DEFINE k == cl'[c]
  <2>1. k.pc \in {"read", "open", "create", "query"}
    BY <1>4, <1>5
  <2> HIDE DEF k
  <2>2. Holding(k, View)
    BY <1>9, <2>1 DEF Holding
  <2> QED
    BY <1>8, <2>2 DEF k
<1>14. c # NoOne
  BY OpsAssumption
<1>15. PlaceInv'
  BY <1>0, <1>5, <1>11 DEF PlaceInv, Others
<1>16. LockInv'
  <2>1. \A d \in Clients : ~Owns(cl[d])
    BY <1>0, <1>1, OpsAssumption DEF LockInv
  <2> QED
    BY <1>1, <1>5, <1>12, <2>1 DEF LockInv, Others
<1>17. HoldInv'
  BY <1>1, <1>13, <1>14 DEF HoldInv
<1> QED
  BY <1>0, <1>7, <1>8, <1>15, <1>16, <1>17 DEF IInv

LEMMA LockTimeoutStep ==
    ASSUME IInv, NEW c \in Clients, LockTimeout(c)
    PROVE  IInv'
<1>0. DataType /\ PlaceInv /\ LockInv
  BY DEF IInv
<1>1. cl[c].pc = "lock" /\ Done(c) /\ UNCHANGED <<scm, reg, lock, abandoned, expected, torn, intent>>
  BY DEF LockTimeout, world, told
<1>2. ~Owns(cl[c]) /\ lock # c
  BY <1>0, <1>1 DEF Owns, LockInv
<1>3. Return(c)
  BY <1>1, <1>2 DEF Return, Release
<1> QED
  BY <1>0, <1>1, <1>2, <1>3, AsideReturns DEF DataType

LEMMA CrashStep ==
    ASSUME IInv, NEW c \in Clients, Crash(c)
    PROVE  IInv'
<1>0. DataType /\ PlaceInv /\ LockInv /\ Gone(View) /\ HoldInv
  BY DEF IInv
<1>1. /\ cl[c] # Idle /\ Done(c) /\ UNCHANGED <<scm, reg, expected, intent>>
      /\ lock' = IF lock = c THEN NoOne ELSE lock
      /\ torn' = (torn \/ (lock = c /\ cl[c].pc \in Midway))
  BY DEF Crash, Done, world
<1>2. cl' \in [Clients -> {Idle} \cup Job] /\ Others(c) /\ cl'[c] = Idle
  BY <1>0, <1>1, Ended
<1>3. torn' \in BOOLEAN
  BY <1>0, <1>1, Zenon DEF DataType
<1>4. DataType'
  BY <1>0, <1>1, <1>2, <1>3 DEF DataType
<1>5. CASE lock # c
  <2>1. torn' = torn
    BY <1>0, <1>1, <1>5, Zenon DEF DataType
  <2>2. View' = View
    BY <1>1, <2>1 DEF View
  <2>3. ~Owns(cl[c])
    BY <1>0, <1>5 DEF LockInv
  <2>4. ~Owns(cl'[c])
    BY <1>2 DEF Owns
  <2> QED
    BY <1>1, <1>2, <1>4, <1>5, <2>2, <2>3, <2>4, Aside
<1>6. CASE lock = c
  <2>1. cl[c] \in Job
    BY <1>0, <1>1 DEF DataType
  <2>2. Place(cl[c]) /\ Owns(cl[c]) /\ cl[c].pc \in Pcs
    BY <1>0, <1>1, <1>6, <2>1 DEF PlaceInv, LockInv, Job
  <2>3. Holding(cl[c], View)
    BY <1>0, <1>6, OpsAssumption DEF HoldInv
  <2>4. torn' \/ Agree(View)
    <3>1. CASE cl[c].pc \in Midway
      BY <1>1, <1>6, <3>1
    <3>2. CASE cl[c].pc \notin Midway
      <4>1. cl[c].pc \in {"read", "open", "create", "query", "delete", "purge"}
        BY <2>2, <3>2 DEF Midway, Pcs, Place, Owns, LockedOps, UnlockedOps, UnlockedPcs, Controls
      <4> QED
        BY <2>3, <4>1 DEF Holding
    <3> QED
      BY <3>1, <3>2
  <2>5. torn' \/ reg = expected
    <3>1. Agree(View) => torn \/ reg = expected
      BY DEF Agree, View
    <3>2. torn => torn'
      BY <1>1
    <3> QED
      BY <2>4, <3>1, <3>2
  <2>6. Agree(View')
    BY <1>1, <2>5 DEF Agree, View
  <2>7. ~scm.present => reg = NoValues
    BY <1>0 DEF Gone, View
  <2>8. Gone(View')
    BY <1>1, <2>6, <2>7 DEF Gone, View
  <2> QED
    BY <1>1, <1>2, <1>4, <1>6, <2>6, <2>8, Leaves
<1> QED
  BY <1>5, <1>6

\* The service goes its own way; one that is marked takes everything with it.
LEMMA ServiceSteps ==
    ASSUME IInv, ServiceStep
    PROVE  IInv'
<1>0. DataType /\ PlaceInv /\ LockInv /\ Gone(View) /\ Kept(View) /\ HoldInv
  BY DEF IInv
<1>1. scm.present /\ UNCHANGED <<lock, cl, intent>>
  BY DEF ServiceStep
<1>2. PICK s \in ServiceStates :
        IF s = "Stopped" /\ scm.doomed
        THEN scm' = Absent /\ reg' = NoValues /\ expected' = NoValues /\ torn' = FALSE
        ELSE scm' = [scm EXCEPT !.state = s] /\ UNCHANGED <<reg, expected, torn>>
  BY DEF ServiceStep
<1>3. PlaceInv' /\ LockInv'
  BY <1>0, <1>1 DEF PlaceInv, LockInv
<1>4. CASE scm' = [scm EXCEPT !.state = s] /\ UNCHANGED <<reg, expected, torn>>
  <2>1. scm' \in ScmRecords /\ scm'.present
    BY <1>0, <1>1, <1>4, ScmFacts DEF DataType
  <2>2. scm \in ScmRecords /\ scm.present \in BOOLEAN /\ scm'.present \in BOOLEAN
    BY <1>0, <2>1, ScmFacts DEF DataType
  <2>3. scm'.present = scm.present
    BY <1>1, <2>1, <2>2
  <2>4. View' = View
    BY <1>1, <1>4, <2>3 DEF View
  <2>5. DataType'
    BY <1>0, <1>1, <1>4, <2>1 DEF DataType
  <2>6. HoldInv'
    BY <1>0, <1>1, <2>4 DEF HoldInv
  <2> QED
    BY <1>0, <1>3, <2>4, <2>5, <2>6 DEF IInv
<1>5. CASE scm' = Absent /\ reg' = NoValues /\ expected' = NoValues /\ torn' = FALSE
  <2>1. scm' \in ScmRecords /\ ~scm'.present /\ NoValues \in Registry
    BY <1>5, ScmFacts, ConfigNoValues
  <2>2. DataType'
    BY <1>0, <1>1, <1>5, <2>1 DEF DataType
  <2> DEFINE w == View
             v == View'
  <2>3. ~v.present /\ v.reg = NoValues /\ v.expected = NoValues /\ v.intent = w.intent
    BY <1>1, <1>5, <2>1 DEF View
  <2> HIDE DEF v, w
  <2>4. Agree(v) /\ Gone(v) /\ Kept(v)
    BY <2>3 DEF Agree, Gone, Kept
  <2>5. ASSUME NEW j, Holding(j, w) PROVE Holding(j, v)
    BY <2>3, <2>4, <2>5 DEF Holding, Edits, Original, Sets, Halfway
  <2>6. HoldInv'
    BY <1>0, <1>1, <2>4, <2>5 DEF HoldInv, v, w
  <2> QED
    BY <1>3, <2>2, <2>4, <2>6 DEF IInv, v
<1> QED
  BY <1>2, <1>4, <1>5

\* A process in an operation without the mutex.
LEMMA Unlocked ==
    ASSUME IInv, NEW c \in Clients, cl[c].pc \in Pcs,
           cl[c].pc \in UnlockedPcs \/ cl[c].req.op \in UnlockedOps
    PROVE  /\ cl[c] \in Job /\ Place(cl[c]) /\ ~Owns(cl[c])
           /\ cl[c].req.op \in UnlockedOps /\ cl[c].req.op \notin LockedOps
<1>1. cl[c] \in Job /\ Place(cl[c])
  BY Working DEF IInv
<1>2. cl[c].req.op \in UnlockedOps
  BY <1>1 DEF Place
<1>3. cl[c].req.op \notin LockedOps
  BY <1>2 DEF LockedOps, UnlockedOps, Controls
<1> QED
  BY <1>1, <1>2, <1>3 DEF Owns

\* Going on to another step without the mutex.
LEMMA GoesOn ==
    ASSUME IInv, NEW c \in Clients, cl[c].pc \in Pcs,
           cl[c].pc \in UnlockedPcs \/ cl[c].req.op \in UnlockedOps,
           NEW pc \in UnlockedPcs, Go(c, pc), reg' = reg, lock' = lock, UNCHANGED told,
           scm' \in ScmRecords, scm'.present = scm.present
    PROVE  IInv'
<1>0. DataType
  BY DEF IInv
<1>1. /\ cl[c] \in Job /\ Place(cl[c]) /\ ~Owns(cl[c])
      /\ cl[c].req.op \in UnlockedOps /\ cl[c].req.op \notin LockedOps
  BY Unlocked
<1>2. pc \in Pcs
  BY DEF Pcs, UnlockedPcs
<1>3. cl'[c].pc = pc /\ cl'[c].req = cl[c].req
  BY <1>0, <1>1, <1>2, Went
<1>4. Place(cl'[c])
  BY <1>1, <1>3 DEF Place, UnlockedPcs
<1> QED
  BY <1>1, <1>2, <1>4, AsideGoes

LEMMA UnlockedSteps ==
    ASSUME IInv, NEW c \in Clients,
           Check(c) \/ Rebind(c) \/ StartService(c) \/ Control(c) \/ Poll(c) \/ PollTimeout(c)
    PROVE  IInv'
<1>0. scm \in ScmRecords /\ scm.present \in BOOLEAN
  BY ScmFacts DEF IInv, DataType
<1>s. \A t \in ScmRecords : t.present /\ scm.present => t.present = scm.present
  BY <1>0, ScmFacts
<1>1. CASE Check(c)
  <2>1. cl[c].pc = "query" /\ cl[c].req.op \in UnlockedOps /\ reg' = reg /\ scm' = scm
    BY <1>1 DEF Check, Lifecycle, world
  <2>2. ~Owns(cl[c])
    BY <2>1, Unlocked DEF Pcs
  <2>3. CASE Return(c)
    BY <1>0, <2>1, <2>2, <2>3, AsideReturns
  <2>4. CASE ~Return(c)
    <3> DEFINE pc == IF cl[c].req.op = "repair" THEN "rebind"
                     ELSE IF cl[c].req.op = "start" THEN "startservice"
                     ELSE IF cl[c].req.op \in Controls THEN "control"
                     ELSE IF Stopped(scm) THEN "startservice"
                     ELSE IF scm.state = "StopPending" THEN "poll" ELSE "control"
    <3>1. Go(c, pc) /\ UNCHANGED <<lock, abandoned, told>>
      BY <1>1, <2>4 DEF Check
    <3>2. pc \in UnlockedPcs
      BY DEF UnlockedPcs
    <3> HIDE DEF pc
    <3> QED
      BY <1>0, <2>1, <3>1, <3>2, GoesOn DEF Pcs
  <2> QED
    BY <2>3, <2>4
<1>2. CASE Rebind(c)
  <2>1. /\ cl[c].pc = "rebind" /\ Return(c) /\ reg' = reg
        /\ scm' = scm \/ (scm.present /\ scm' = [scm EXCEPT !.runner = TRUE])
    BY <1>2 DEF Rebind
  <2>2. scm' \in ScmRecords /\ scm'.present = scm.present
    <3>1. CASE scm' = scm
      BY <1>0, <3>1
    <3>2. CASE scm.present /\ scm' = [scm EXCEPT !.runner = TRUE]
      BY <1>0, <1>s, <3>2, ScmFacts
    <3> QED
      BY <2>1, <3>1, <3>2
  <2>3. ~Owns(cl[c])
    BY <2>1, Unlocked DEF Pcs, UnlockedPcs
  <2> QED
    BY <2>1, <2>2, <2>3, AsideReturns
<1>3. CASE StartService(c)
  <2>1. /\ cl[c].pc = "startservice" /\ Return(c) /\ reg' = reg
        /\ scm' = scm \/ (scm.present /\ scm' = [scm EXCEPT !.state = "StartPending"])
    BY <1>3 DEF StartService
  <2>2. scm' \in ScmRecords /\ scm'.present = scm.present
    <3>1. CASE scm' = scm
      BY <1>0, <3>1
    <3>2. CASE scm.present /\ scm' = [scm EXCEPT !.state = "StartPending"]
      BY <1>0, <1>s, <3>2, ScmFacts DEF ServiceStates
    <3> QED
      BY <2>1, <3>1, <3>2
  <2>3. ~Owns(cl[c])
    BY <2>1, Unlocked DEF Pcs, UnlockedPcs
  <2> QED
    BY <2>1, <2>2, <2>3, AsideReturns
<1>4. CASE Control(c)
  <2>1. PICK op : scm' = IF scm.present THEN [scm EXCEPT !.state = Controlled(op)] ELSE scm
    BY <1>4 DEF Control
  <2>2. cl[c].pc = "control" /\ reg' = reg
    BY <1>4 DEF Control
  <2>3. scm' \in ScmRecords /\ scm'.present = scm.present
    <3>1. CASE ~scm.present
      BY <1>0, <2>1, <3>1
    <3>2. CASE scm.present
      <4>1. scm.state \in ServiceStates
        BY <1>0, <3>2, ScmFacts DEF ScmRecords, Absent
      <4>2. Controlled(op) \in ServiceStates
        BY <4>1 DEF Controlled, ServiceStates
      <4> QED
        BY <1>0, <1>s, <2>1, <3>2, <4>2, ScmFacts
    <3> QED
      BY <3>1, <3>2
  <2>4. ~Owns(cl[c])
    BY <2>2, Unlocked DEF Pcs, UnlockedPcs
  <2>5. CASE Return(c)
    BY <2>2, <2>3, <2>4, <2>5, AsideReturns
  <2>6. CASE ~Return(c)
    <3>1. Go(c, "poll") /\ UNCHANGED <<lock, abandoned, told>>
      BY <1>4, <2>6 DEF Control
    <3> QED
      BY <2>2, <2>3, <3>1, GoesOn DEF Pcs, UnlockedPcs
  <2> QED
    BY <2>5, <2>6
<1>5. CASE Poll(c)
  <2>1. cl[c].pc = "poll" /\ Go(c, "startservice") /\ UNCHANGED <<scm, reg, lock, told>>
    BY <1>5 DEF Poll, world
  <2> QED
    BY <1>0, <2>1, GoesOn DEF Pcs, UnlockedPcs
<1>6. CASE PollTimeout(c)
  <2>1. cl[c].pc = "poll" /\ Return(c) /\ UNCHANGED <<scm, reg>>
    BY <1>6 DEF PollTimeout, world
  <2>2. ~Owns(cl[c])
    BY <2>1, Unlocked DEF Pcs, UnlockedPcs
  <2> QED
    BY <1>0, <2>1, <2>2, AsideReturns
<1> QED
  BY <1>1, <1>2, <1>3, <1>4, <1>5, <1>6

-----------------------------------------------------------------------------
(* Edit and recovery *)

LEMMA Owner ==
    ASSUME IInv, NEW c \in Clients, lock = c
    PROVE  /\ DataType /\ Gone(View) /\ Kept(View) /\ scm.present \in BOOLEAN
           /\ cl[c] \in Job /\ cl[c] # Idle /\ Place(cl[c]) /\ Owns(cl[c])
           /\ Holding(cl[c], View)
           /\ ~scm.present => reg = NoValues /\ (torn \/ reg = expected)
<1>1. DataType /\ Gone(View) /\ Kept(View) /\ PlaceInv /\ LockInv /\ HoldInv
  BY DEF IInv
<1>2. Owns(cl[c]) /\ cl[c] # Idle
  BY <1>1 DEF LockInv, Owns
<1>3. cl[c] \in Job /\ Place(cl[c])
  BY <1>1, <1>2 DEF DataType, PlaceInv
<1>4. Holding(cl[c], View)
  BY <1>1, OpsAssumption DEF HoldInv
<1>5. scm.present \in BOOLEAN
  BY <1>1, ScmFacts DEF DataType
<1>6. ~scm.present => reg = NoValues /\ (torn \/ reg = expected)
  BY <1>1 DEF Gone, Agree, View
<1> QED
  BY <1>1, <1>2, <1>3, <1>4, <1>5, <1>6

\* The owner goes on in its operation.
LEMMA OwnerKeepsOwning ==
    ASSUME IInv, NEW c \in Clients, lock = c, cl'[c] \in Job, cl'[c].req = cl[c].req,
           cl'[c].pc # "lock"
    PROVE  Owns(cl'[c])
<1>1. Owns(cl[c])
  BY Owner
<1>2. cl'[c] # Idle
  BY JobNotIdle
<1> QED
  BY <1>1, <1>2 DEF Owns

LEMMA ReadConfigStep ==
    ASSUME IInv, NEW c \in Clients, ReadConfig(c)
    PROVE  IInv'
<1> DEFINE r == cl[c].req
           cfg == Merged(r, Config(reg))
           k == cl'[c]
           v == View'
<1>1. cl[c].pc = "read" /\ UNCHANGED <<scm, reg>>
  BY DEF ReadConfig, world
<1>2. lock = c
  BY <1>1, Working DEF IInv, Pcs
<1>3. /\ DataType /\ Gone(View) /\ cl[c] \in Job /\ cl[c] # Idle /\ Place(cl[c])
      /\ Holding(cl[c], View)
      /\ ~scm.present => reg = NoValues
  BY <1>2, Owner
<1>4. torn \/ reg = expected
  <2>1. Agree(View)
    BY <1>1, <1>3 DEF Holding
  <2> QED
    BY <2>1 DEF Agree, View
<1>5. reg \in Registry /\ scm \in ScmRecords /\ Config(reg) \in Registry
  BY <1>3, ConfigFacts DEF DataType
<1>6. CASE Return(c)
  BY <1>1, <1>2, <1>3, <1>4, <1>5, <1>6, OwnerReturns
<1>7. CASE /\ Readable(reg) /\ ~TouchesManaged(r)
           /\ cl' = [cl EXCEPT ![c].pc = "native", ![c].orig = Config(reg),
                               ![c].goal = Config(reg)]
           /\ UNCHANGED <<lock, abandoned, told>>
  <2>1. k = [cl[c] EXCEPT !.pc = "native", !.orig = Config(reg), !.goal = Config(reg)] /\ Others(c)
    BY <1>3, <1>7 DEF DataType, Others
  <2>2. k \in Job /\ k.pc = "native" /\ k.req = cl[c].req
    BY <1>3, <1>5, <2>1 DEF Job, Pcs
  <2>3. cl' \in [Clients -> {Idle} \cup Job]
    BY <1>3, <1>7, <2>2 DEF DataType
  <2>4. UNCHANGED <<lock, expected, torn, intent>>
    BY <1>7 DEF told
  <2>5. DataType' /\ v = View
    BY <1>1, <1>3, <2>3, <2>4 DEF DataType, View
  <2>6. r.op \in {"edit", "recovery"}
    BY <1>1, <1>3 DEF Place
  <2> HIDE DEF k, v
  <2>7. Place(k)
    BY <1>3, <1>7, <2>2, <2>6 DEF Place, TouchesManaged, UnlockedPcs
  <2>8. Agree(v)
    BY <1>4, <2>5 DEF Agree, View
  <2>9. Holding(k, v)
    BY <1>7, <2>2, <2>8 DEF Holding
  <2>10. Gone(v) /\ Kept(v)
    BY <1>3, <2>5, <2>8, AgreeKept
  <2>11. Owns(k)
    BY <1>2, <2>2, OwnerKeepsOwning DEF k
  <2> QED
    BY <1>2, <2>1, <2>4, <2>5, <2>7, <2>9, <2>10, <2>11, Inside DEF k, v
<1>8. CASE /\ Readable(reg) /\ TouchesManaged(r) /\ Preflight(cfg)
           /\ cl' = [cl EXCEPT ![c].pc = "write", ![c].orig = Config(reg),
                               ![c].goal = cfg, ![c].plan = WritePlan(reg, cfg)]
           /\ intent' = cfg
           /\ UNCHANGED <<lock, abandoned, expected, torn>>
  <2> DEFINE plan == WritePlan(reg, cfg)
             o == Config(reg)
  <2>1. r \in Requests /\ RequestOK(r)
    BY <1>3 DEF Job, Place
  <2>2. cfg \in Registry /\ cfg["AppExit\\Default"] = None /\ HasMarker(cfg)
    BY <1>5, <1>8, <2>1, MergedFacts
  <2>3. plan \in Seq(Call) /\ Underway(reg, plan, cfg)
    BY <2>2, WritePlanLeads
  <2>4. HasMarker(reg) /\ HasMarker(o) /\ o["AppExit\\Default"] = None
    BY <1>5, <1>8, ConfigFacts
  <2>r. torn \/ cfg = Merged(r, Config(expected))
    BY <1>4
  <2>o. torn \/ o = Config(expected)
    BY <1>4
  <2>5. k = [cl[c] EXCEPT !.pc = "write", !.orig = o, !.goal = cfg, !.plan = plan] /\ Others(c)
    BY <1>3, <1>8 DEF DataType, Others
  <2> HIDE DEF cfg, plan, o
  <2>6. /\ k \in Job /\ k.pc = "write" /\ k.req = r /\ k.orig = o /\ k.goal = cfg
        /\ k.plan = plan
    BY <1>3, <1>5, <2>2, <2>3, <2>5 DEF Job, Pcs, o
  <2>7. cl' \in [Clients -> {Idle} \cup Job]
    <3>1. cl' = [cl EXCEPT ![c] = k]
      BY <1>3, <1>8, <2>5 DEF DataType, cfg, plan, o
    <3> QED
      BY <1>3, <2>6, <3>1 DEF DataType
  <2>8. DataType'
    BY <1>1, <1>3, <1>8, <2>2, <2>7 DEF DataType
  <2>9. v = [present |-> scm.present, reg |-> reg, expected |-> expected, torn |-> torn, intent |-> cfg]
    BY <1>1, <1>8 DEF View
  <2> HIDE DEF k, v
  <2>10. Place(k)
    BY <1>1, <1>3, <1>8, <2>6 DEF Place, UnlockedPcs
  <2>11. Agree(v) /\ Gone(v) /\ Kept(v)
    BY <1>3, <1>4, <2>9, AgreeKept DEF Agree, Gone
  <2>12. Edits(k, v)
    BY <2>2, <2>4, <2>6, <2>9, <2>r, <2>o DEF Edits, Original
  <2>13. Holding(k, v)
    BY <2>3, <2>6, <2>9, <2>12 DEF Holding
  <2>14. Owns(k)
    BY <1>2, <2>6, OwnerKeepsOwning DEF k
  <2> QED
    BY <1>2, <1>8, <2>5, <2>8, <2>10, <2>11, <2>13, <2>14, Inside DEF k, v
<1> QED
  BY <1>6, <1>7, <1>8 DEF ReadConfig

\* One call of the owner: see StepUnderway.
LEMMA RegistryCallStep ==
    ASSUME IInv, NEW c \in Clients, RegistryCall(c)
    PROVE  IInv'
<1> DEFINE j == cl[c]
           k == cl'[c]
           w == View
           v == View'
           s == Apply(reg, Head(j.plan))
<1>1. /\ j.pc \in {"write", "undo", "set", "configure"} /\ j.plan # <<>> /\ scm.present
      /\ reg' = s /\ UNCHANGED <<scm, lock, expected, torn, intent>>
      /\ cl' = [cl EXCEPT ![c].plan = Tail(@)]
  BY DEF RegistryCall, told
<1>2. lock = c
  BY <1>1, Working DEF IInv, Pcs
<1>3. /\ DataType /\ Kept(w) /\ j \in Job /\ Place(j) /\ Holding(j, w)
  BY <1>2, Owner
<1>4. /\ reg \in Registry /\ j.goal \in Registry /\ j.orig \in Registry /\ j.plan \in Seq(Call)
      /\ expected \in Registry
  BY <1>3 DEF DataType, Job
<1>5. /\ w.present /\ v.present /\ w.reg = reg /\ v.reg = s
      /\ w.expected = expected /\ v.expected = expected /\ w.intent = intent /\ v.intent = intent
      /\ w.torn = torn /\ v.torn = torn
  BY <1>1 DEF View
<1> DEFINE g == IF j.pc = "undo" THEN j.orig ELSE j.goal
<1>6. g \in Registry /\ Underway(reg, j.plan, g)
  <2> HIDE DEF j, w, v
  <2> QED
    BY <1>1, <1>3, <1>4, <1>5 DEF Holding
<1>7. /\ Tail(j.plan) \in Seq(Call) /\ s \in Registry /\ Underway(s, Tail(j.plan), g)
      /\ HasMarker(g) /\ HasMarker(reg) => HasMarker(s)
      /\ \A n \in Names : Config(g)[n] # None /\ Config(reg)[n] # None => Config(s)[n] # None
  <2> HIDE DEF g
  <2> QED
    BY <1>1, <1>4, <1>6, StepUnderway
<1>8. k = [j EXCEPT !.plan = Tail(j.plan)] /\ Others(c)
  BY <1>1, <1>3 DEF DataType, Others
<1>9. /\ k \in Job /\ k.pc = j.pc /\ k.req = j.req /\ k.goal = j.goal /\ k.orig = j.orig
      /\ k.plan = Tail(j.plan)
  BY <1>3, <1>7, <1>8 DEF Job
<1>10. DataType'
  <2>1. cl' = [cl EXCEPT ![c] = k]
    BY <1>1, <1>3, <1>8 DEF DataType
  <2> QED
    BY <1>1, <1>3, <1>7, <1>9, <2>1 DEF DataType
<1>11. Place(k)
  BY <1>3, <1>9 DEF Place
<1>12. Owns(k)
  BY <1>1, <1>2, <1>9, OwnerKeepsOwning
<1>h. Config(Config(expected)) = Config(expected) /\ \A n \in Names : Config(NoValues)[n] = None
  BY <1>4, ConfigFacts, ConfigNoValues
<1> HIDE DEF s, k, j, v, w
<1>13. Gone(v)
  BY <1>5 DEF Gone
<1>14. CASE j.pc = "write"
  <2>1. Edits(j, w) /\ g = j.goal
    BY <1>3, <1>14 DEF Holding
  <2>2. Edits(k, v)
    BY <1>5, <1>7, <1>9, <2>1 DEF Edits, Original
  <2>3. Holding(k, v)
    BY <1>5, <1>7, <1>9, <1>14, <2>1, <2>2 DEF Holding
  <2>4. Kept(v)
    BY <1>3, <1>5, <1>7, <2>1 DEF Kept, Edits
  <2> QED
    BY <1>1, <1>2, <1>8, <1>10, <1>11, <1>12, <1>13, <2>3, <2>4, Inside DEF k, v
<1>15. CASE j.pc = "undo"
  <2>1. Original(j, w) /\ g = j.orig
    BY <1>3, <1>15 DEF Holding
  <2>2. Original(k, v)
    BY <1>5, <1>7, <1>9, <2>1 DEF Original
  <2>3. Holding(k, v)
    BY <1>5, <1>7, <1>9, <1>15, <2>1, <2>2 DEF Holding
  <2>4. Kept(v)
    BY <1>3, <1>5, <1>7, <1>h, <2>1 DEF Kept, Original
  <2> QED
    BY <1>1, <1>2, <1>8, <1>10, <1>11, <1>12, <1>13, <2>3, <2>4, Inside DEF k, v
<1>16. CASE j.pc = "set"
  <2>1. Sets(j, w) /\ g = j.goal
    BY <1>3, <1>16 DEF Holding
  <2>2. Halfway(k, v)
    <3>1. Halfway(j, w) /\ SetCalls(k) = SetCalls(j)
      BY <1>9, <2>1 DEF Sets, SetCalls
    <3>2. Len(SetCalls(j)) \in {1, 2} /\ SetCalls(j) \in Seq(Call)
      <4>1. SetRequest(j.req)
        BY <1>3, <1>16, OpsAssumption DEF Place, Job
      <4> QED
        BY <4>1, SetPlanLength, SetPlanLeads, ConfigNoValues DEF SetRequest, SetCalls
    <3>3. Len(k.plan) = Len(j.plan) - 1 /\ k.plan \in Seq(Call) /\ j.plan # <<>>
      BY <1>1, <1>4, <1>9
    <3>4. CASE j.plan = SetCalls(j)
      <4>1. s = Apply(reg, Head(SetCalls(j)))
        BY <3>4 DEF s
      <4> QED
        BY <1>5, <3>1, <3>2, <3>3, <3>4, <4>1 DEF Halfway
    <3>5. CASE j.plan # SetCalls(j)
      <4>1. k.plan = <<>> /\ SetCalls(j) # <<>>
        BY <1>4, <3>1, <3>2, <3>3, <3>5 DEF Halfway
      <4> QED
        BY <3>1, <4>1 DEF Halfway
    <3> QED
      BY <3>4, <3>5
  <2>s. Sets(k, v)
    BY <1>5, <1>7, <1>9, <2>1, <2>2 DEF Sets
  <2>3. Holding(k, v)
    BY <1>5, <1>7, <1>9, <1>16, <2>1, <2>s DEF Holding
  <2>4. Kept(v)
    BY <1>3, <1>5, <1>7, <2>1 DEF Kept, Sets
  <2> QED
    BY <1>1, <1>2, <1>8, <1>10, <1>11, <1>12, <1>13, <2>3, <2>4, Inside DEF k, v
<1>17. CASE j.pc = "configure"
  <2>1. j.goal = j.req.config /\ g = j.goal /\ (w.torn \/ w.expected = NoValues)
    BY <1>3, <1>17 DEF Holding
  <2>2. Holding(k, v)
    BY <1>5, <1>7, <1>9, <1>17, <2>1 DEF Holding
  <2>3. Kept(v)
    BY <1>5, <1>h, <2>1 DEF Kept
  <2> QED
    BY <1>1, <1>2, <1>8, <1>10, <1>11, <1>12, <1>13, <2>2, <2>3, Inside DEF k, v
<1> QED
  BY <1>1, <1>14, <1>15, <1>16, <1>17

LEMMA RollBackStep ==
    ASSUME IInv, NEW c \in Clients, lock = c, Original(cl[c], View), TouchesManaged(cl[c].req),
           RollBack(c), UNCHANGED <<scm, reg>>
    PROVE  IInv'
<1> DEFINE j == cl[c]
           k == cl'[c]
           plan == WritePlan(reg, j.orig)
<1>1. DataType /\ Gone(View) /\ Kept(View) /\ j \in Job /\ Place(j) /\ (~scm.present => reg = NoValues)
  BY Owner
<1>2. reg \in Registry /\ scm \in ScmRecords /\ j.orig \in Registry
  BY <1>1 DEF DataType, Job
<1>3. CASE Preflight(j.orig)
  <2>1. /\ cl' = [cl EXCEPT ![c].pc = "undo", ![c].plan = plan]
        /\ UNCHANGED <<lock, expected, torn, intent>>
    BY <1>3 DEF RollBack, told
  <2>2. plan \in Seq(Call) /\ Underway(reg, plan, j.orig)
    BY <1>2, WritePlanLeads DEF Original
  <2>3. k = [j EXCEPT !.pc = "undo", !.plan = plan] /\ Others(c)
    BY <1>1, <2>1 DEF DataType, Others
  <2> HIDE DEF plan
  <2>4. k \in Job /\ k.pc = "undo" /\ k.req = j.req /\ k.plan = plan /\ k.orig = j.orig
    BY <1>1, <2>2, <2>3 DEF Job, Pcs
  <2>5. DataType'
    <3>1. cl' = [cl EXCEPT ![c] = k]
      BY <1>1, <2>1, <2>3 DEF DataType
    <3> QED
      BY <1>1, <2>1, <2>4, <3>1 DEF DataType
  <2>6. View' = View
    BY <2>1 DEF View
  <2>7. Place(k)
    BY <1>1, <2>4 DEF Place, TouchesManaged, UnlockedPcs
  <2>8. Owns(k)
    BY <2>4, OwnerKeepsOwning
  <2>9. Holding(k, View)
    <3>1. View.reg = reg
      BY DEF View
    <3> DEFINE w == View
    <3> HIDE DEF w, k
    <3>2. Original(k, w)
      BY <2>4 DEF Original, w
    <3> QED
      BY <2>2, <2>4, <3>1, <3>2 DEF Holding, w
  <2> QED
    BY <1>1, <2>1, <2>3, <2>5, <2>6, <2>7, <2>8, <2>9, Inside
<1>4. CASE ~Preflight(j.orig)
  <2>1. ReturnTorn(c)
    BY <1>4 DEF RollBack
  <2> QED
    BY <1>1, <1>2, <2>1, OwnerReturnsTorn
<1> QED
  BY <1>3, <1>4

LEMMA WriteSteps ==
    ASSUME IInv, NEW c \in Clients, WriteFails(c) \/ WriteDone(c)
    PROVE  IInv'
<1> DEFINE j == cl[c]
           w == View
<1>1. j.pc = "write" /\ UNCHANGED <<scm, reg>>
  BY DEF WriteFails, WriteDone, world
<1>2. lock = c
  BY <1>1, Working DEF IInv, Pcs
<1>3. /\ DataType /\ Gone(w) /\ Kept(w) /\ j \in Job /\ Place(j) /\ Holding(j, w)
      /\ ~scm.present => reg = NoValues
  BY <1>2, Owner
<1>4. TouchesManaged(j.req) /\ Edits(j, w) /\ (scm.present => Underway(reg, j.plan, j.goal))
  <2>1. w.present = scm.present /\ w.reg = reg
    BY DEF View
  <2> HIDE DEF j, w
  <2> QED
    BY <1>1, <1>3, <2>1 DEF Place, Holding
<1>5. CASE WriteFails(c)
  <2>1. RollBack(c)
    BY <1>5 DEF WriteFails
  <2> QED
    BY <1>1, <1>2, <1>4, <2>1, RollBackStep DEF Edits
<1>6. CASE WriteDone(c)
  <2>1. j.plan = <<>>
    BY <1>6 DEF WriteDone
  <2>2. scm.present => reg = j.goal
    BY <1>3, <1>4, <2>1, DoneUnderway DEF DataType, Job
  <2>3. CASE TouchesNative(j.req)
    <3>1. Go(c, "native") /\ UNCHANGED <<lock, expected, torn, intent>>
      BY <1>6, <2>3 DEF WriteDone, told
    <3> DEFINE k == cl'[c]
    <3>2. /\ cl' \in [Clients -> {Idle} \cup Job] /\ Others(c) /\ k \in Job
          /\ k.pc = "native" /\ k.req = j.req /\ k.goal = j.goal /\ k.orig = j.orig
      BY <1>3, <3>1, Went DEF Pcs
    <3>3. DataType' /\ View' = w
      BY <1>1, <1>3, <3>1, <3>2 DEF DataType, View
    <3>4. Place(k)
      BY <1>3, <2>3, <3>2 DEF Place, TouchesNative, UnlockedPcs
    <3>5. Owns(k)
      BY <1>2, <3>2, OwnerKeepsOwning
    <3>6. w.present = scm.present /\ w.reg = reg
      BY DEF View
    <3> HIDE DEF j, k, w
    <3>7. Edits(k, w)
      BY <1>4, <3>2 DEF Edits, Original
    <3>8. Holding(k, w)
      BY <1>4, <2>2, <3>2, <3>6, <3>7 DEF Holding
    <3> QED
      BY <1>2, <1>3, <3>1, <3>2, <3>3, <3>4, <3>5, <3>8, Inside DEF k, w
  <2>4. CASE ~TouchesNative(j.req)
    <3>1. ReturnOk(c, TRUE)
      BY <1>6, <2>4 DEF WriteDone
    <3>2. scm.present /\ ~torn => reg = Intended(j.req, expected)
      <4>1. scm.present /\ ~torn => j.goal = Merged(j.req, Config(expected))
        BY <1>4 DEF Edits, View
      <4> QED
        BY <1>4, <2>2, <4>1 DEF Intended
    <3> QED
      BY <1>1, <1>2, <1>3, <2>2, <3>1, <3>2, OwnerReportsOk DEF DataType
  <2> QED
    BY <2>3, <2>4
<1> QED
  BY <1>5, <1>6

LEMMA UndoSteps ==
    ASSUME IInv, NEW c \in Clients, UndoDone(c) \/ UndoFails(c)
    PROVE  IInv'
<1> DEFINE j == cl[c]
           w == View
<1>1. j.pc = "undo" /\ UNCHANGED <<scm, reg>>
  BY DEF UndoDone, UndoFails, world
<1>2. lock = c
  BY <1>1, Working DEF IInv, Pcs
<1>3. /\ DataType /\ j \in Job /\ Holding(j, w)
      /\ ~scm.present => reg = NoValues /\ (torn \/ reg = expected)
  BY <1>2, Owner
<1>4. CASE UndoFails(c)
  <2>1. ReturnTorn(c)
    BY <1>4 DEF UndoFails
  <2> QED
    BY <1>1, <1>2, <1>3, <2>1, OwnerReturnsTorn DEF DataType
<1>5. CASE UndoDone(c)
  <2>1. /\ j.plan = <<>> /\ Done(c) /\ Release(c) /\ expected' = Config(expected)
        /\ UNCHANGED <<torn, intent>>
    BY <1>5 DEF UndoDone
  <2>2. cl' \in [Clients -> {Idle} \cup Job] /\ Others(c) /\ cl'[c] = Idle
    BY <1>3, <2>1, Ended
  <2>3. lock' = NoOne
    BY <1>2, <2>1 DEF Release
  <2>4. expected' \in Registry
    BY <1>3, <2>1, ConfigFacts DEF DataType
  <2>5. DataType'
    BY <1>1, <1>3, <2>1, <2>2, <2>3, <2>4 DEF DataType
  <2>6. scm.present => Underway(reg, <<>>, j.orig)
    <3>1. w.present = scm.present /\ w.reg = reg
      BY DEF View
    <3> HIDE DEF j, w
    <3> QED
      BY <1>1, <1>3, <2>1, <3>1 DEF Holding
  <2>7. scm.present => reg = j.orig
    BY <1>3, <2>6, DoneUnderway DEF DataType, Job
  <2>8. scm.present /\ ~torn => j.orig = Config(expected)
    <3>1. Original(j, w)
      BY <1>1, <1>3 DEF Holding
    <3> QED
      BY <3>1 DEF Original, View
  <2>9. torn' \/ reg' = expected'
    BY <1>1, <1>3, <2>1, <2>7, <2>8, ConfigNoValues
  <2>10. Agree(View')
    BY <2>9 DEF Agree, View
  <2>11. Gone(View')
    BY <1>1, <1>3, <2>10 DEF Gone, View
  <2> QED
    BY <1>2, <2>2, <2>3, <2>5, <2>10, <2>11, Leaves
<1> QED
  BY <1>4, <1>5

\* The native half, of an edit or of a native edit.
LEMMA NativePlace ==
    ASSUME IInv, NEW c \in Clients, cl[c].pc \in {"native", "describe"}
    PROVE  /\ cl[c] \in Job /\ Place(cl[c]) /\ EditRequest(cl[c].req)
           /\ TouchesManaged(cl[c].req) \in BOOLEAN
           /\ \/ /\ lock = c /\ cl[c].req.op = "edit"
                 /\ ~TouchesManaged(cl[c].req) => torn \/ reg = expected
                 /\ TouchesManaged(cl[c].req) =>
                      Edits(cl[c], View) /\ (scm.present => reg = cl[c].goal)
              \/ /\ lock # c /\ ~Owns(cl[c]) /\ cl[c].req.op = "native"
                 /\ ~TouchesManaged(cl[c].req) /\ cl[c].req.op \notin LockedOps
<1> DEFINE j == cl[c]
           w == View
<1>1. j \in Job /\ Place(j) /\ (lock = c <=> j.req.op = "edit")
  BY Working DEF IInv, Pcs
<1>2. j.req.op \in {"edit", "native"}
  BY <1>1 DEF Place
<1>3. EditRequest(j.req)
  BY <1>1, <1>2, OpsAssumption DEF Job
<1>4. TouchesManaged(j.req) \in BOOLEAN
  BY Zenon DEF TouchesManaged
<1>5. CASE lock = c
  <2>1. Holding(j, w)
    BY <1>5, Owner
  <2>2. w.present = scm.present /\ w.reg = reg /\ w.torn = torn /\ w.expected = expected
    BY DEF View
  <2> HIDE DEF j, w
  <2>3. /\ ~TouchesManaged(j.req) => Agree(w)
        /\ TouchesManaged(j.req) => Edits(j, w) /\ (w.present => w.reg = j.goal)
    BY <2>1 DEF Holding, j
  <2>4. Agree(w) => torn \/ reg = expected
    BY <2>2 DEF Agree
  <2> QED
    BY <1>1, <1>3, <1>4, <1>5, <2>2, <2>3, <2>4 DEF j, w
<1>6. CASE lock # c
  <2>1. j.req.op = "native"
    BY <1>1, <1>2, <1>6
  <2>2. j.req.op \notin LockedOps /\ ~TouchesManaged(j.req) /\ ~Owns(j)
    BY <2>1 DEF LockedOps, TouchesManaged, Owns
  <2> QED
    BY <1>1, <1>3, <1>4, <1>6, <2>1, <2>2
<1> QED
  BY <1>5, <1>6

LEMMA NativeFailsStep ==
    ASSUME IInv, NEW c \in Clients, cl[c].pc \in {"native", "describe"}, NativeFails(c),
           UNCHANGED <<scm, reg>>
    PROVE  IInv'
<1>0. /\ reg \in Registry /\ scm \in ScmRecords
      /\ ~scm.present => reg = NoValues
  BY DEF IInv, DataType, Gone, View
<1>1. CASE TouchesManaged(cl[c].req)
  <2>1. lock = c /\ Edits(cl[c], View)
    BY <1>1, NativePlace
  <2>2. RollBack(c)
    BY <1>1 DEF NativeFails
  <2> QED
    BY <1>1, <2>1, <2>2, RollBackStep DEF Edits
<1>2. CASE ~TouchesManaged(cl[c].req)
  <2>1. Return(c)
    BY <1>2 DEF NativeFails
  <2>2. CASE lock = c
    <3>1. torn \/ reg = expected
      BY <1>2, <2>2, NativePlace
    <3> QED
      BY <1>0, <2>1, <2>2, <3>1, OwnerReturns
  <2>3. CASE lock # c
    <3>1. ~Owns(cl[c])
      BY <2>3, NativePlace
    <3> QED
      BY <1>0, <2>1, <3>1, AsideReturns
  <2> QED
    BY <2>2, <2>3
<1> QED
  BY <1>1, <1>2

LEMMA NativeDoneStep ==
    ASSUME IInv, NEW c \in Clients, cl[c].pc \in {"native", "describe"}, NativeDone(c),
           reg' = reg, scm' \in ScmRecords, scm'.present = scm.present
    PROVE  IInv'
<1>1. CASE lock # c
  <2>1. ~Owns(cl[c]) /\ cl[c].req.op = "native"
    BY <1>1, NativePlace
  <2>2. Return(c)
    BY <2>1 DEF NativeDone
  <2> QED
    BY <2>1, <2>2, AsideReturns
<1>2. CASE lock = c
  <2> DEFINE j == cl[c]
             whole == TouchesManaged(j.req)
  <2>1. /\ j \in Job /\ j.req.op = "edit" /\ whole \in BOOLEAN
        /\ ~whole => torn \/ reg = expected
        /\ whole => Edits(j, View) /\ (scm.present => reg = j.goal)
    BY <1>2, NativePlace
  <2>2. ReturnOk(c, whole)
    BY <2>1 DEF NativeDone
  <2>3. scm.present /\ ~torn => reg = Intended(j.req, expected)
    <3>1. whole /\ scm.present /\ ~torn => j.goal = Merged(j.req, Config(expected))
      <4> HIDE DEF whole
      <4> QED
        BY <2>1 DEF Edits, View
    <3>2. CASE whole
      BY <2>1, <3>1, <3>2 DEF Intended
    <3>3. CASE ~whole
      BY <2>1, <3>3 DEF Intended
    <3> QED
      BY <3>2, <3>3
  <2>4. scm.present /\ whole /\ torn => reg = j.goal
    BY <2>1
  <2> HIDE DEF whole
  <2> QED
    BY <1>2, <2>1, <2>2, <2>3, <2>4, OwnerReportsOk
<1> QED
  BY <1>1, <1>2

LEMMA ChangeConfigStep ==
    ASSUME IInv, NEW c \in Clients, ChangeConfig(c)
    PROVE  IInv'
<1> DEFINE j == cl[c]
           r == j.req
<1>1. j.pc = "native"
  BY DEF ChangeConfig
<1>2. j \in Job /\ Place(j) /\ EditRequest(r)
  BY <1>1, NativePlace
<1>3. DataType /\ Gone(View) /\ Kept(View)
  BY DEF IInv
<1>4. CASE NativeFails(c) /\ UNCHANGED world
  BY <1>1, <1>4, NativeFailsStep DEF world
<1>5. CASE /\ scm.present /\ reg' = reg
           /\ scm' = [scm EXCEPT !.disabled = @ \/ r.disable,
                                 !.native = IF r.native # None THEN r.native ELSE @]
           /\ IF r.description # None THEN Go(c, "describe") /\ UNCHANGED <<lock, abandoned, told>>
              ELSE NativeDone(c)
  <2> DEFINE b == scm.disabled \/ r.disable
             n == IF r.native # None THEN r.native ELSE scm.native
  <2>1. scm \in ScmRecords /\ scm.disabled \in BOOLEAN /\ scm.native \in Values
    BY <1>3, <1>5, ScmFacts DEF DataType
  <2>2. n \in Values
    BY <1>2, <2>1 DEF EditRequest
  <2>3. b \in BOOLEAN
    BY Zenon
  <2>4. scm' = [scm EXCEPT !.disabled = b, !.native = n]
    BY <1>5
  <2> HIDE DEF b, n
  <2>p. scm.present
    BY <1>5
  <2>5. scm' \in ScmRecords /\ scm'.present
    BY <2>p, <2>1, <2>2, <2>3, <2>4, ScmFacts
  <2>6. scm'.present = scm.present
    BY <1>5, <2>1, <2>5, ScmFacts
  <2>7. CASE r.description = None
    BY <1>1, <1>5, <2>5, <2>6, <2>7, NativeDoneStep
  <2>8. CASE r.description # None
    <3>1. Go(c, "describe") /\ UNCHANGED <<lock, told, expected, torn, intent>>
      BY <1>5, <2>8 DEF told
    <3> DEFINE k == cl'[c]
    <3>2. /\ cl' \in [Clients -> {Idle} \cup Job] /\ Others(c) /\ k \in Job
          /\ k.pc = "describe" /\ k.req = j.req /\ k.goal = j.goal /\ k.orig = j.orig
      BY <1>2, <1>3, <3>1, Went DEF Pcs
    <3>3. DataType' /\ View' = View
      BY <1>3, <1>5, <2>5, <2>6, <3>1, <3>2 DEF DataType, View
    <3>4. Place(k)
      BY <1>1, <1>2, <2>8, <3>2 DEF Place, UnlockedPcs
    <3>5. CASE lock = c
      <4>1. Holding(j, View)
        BY <3>5, Owner
      <4>2. Owns(k)
        BY <3>2, <3>5, OwnerKeepsOwning
      <4> DEFINE w == View
      <4> HIDE DEF j, k, w
      <4>3. Holding(k, w)
        BY <1>1, <3>2, <4>1 DEF Holding, Edits, Original, w
      <4> QED
        BY <1>3, <3>1, <3>2, <3>3, <3>4, <3>5, <4>2, <4>3, Inside DEF k, w
    <3>6. CASE lock # c
      <4>1. ~Owns(j) /\ j.req.op \notin LockedOps
        BY <1>1, <3>6, NativePlace
      <4>2. "describe" \in Pcs
        BY DEF Pcs
      <4> QED
        BY <1>2, <1>5, <2>5, <2>6, <3>1, <3>4, <4>1, <4>2, AsideGoes
    <3> QED
      BY <3>5, <3>6
  <2> QED
    BY <2>7, <2>8
<1> QED
  BY <1>4, <1>5 DEF ChangeConfig, world

LEMMA ChangeDescriptionStep ==
    ASSUME IInv, NEW c \in Clients, ChangeDescription(c)
    PROVE  IInv'
<1> DEFINE j == cl[c]
<1>1. j.pc = "describe"
  BY DEF ChangeDescription
<1>2. Place(j) /\ EditRequest(j.req)
  BY <1>1, NativePlace
<1>3. CASE NativeFails(c) /\ UNCHANGED world
  BY <1>1, <1>3, NativeFailsStep DEF world
<1>4. CASE /\ scm.present /\ reg' = reg
           /\ scm' = [scm EXCEPT !.description = j.req.description]
           /\ NativeDone(c)
  <2>1. scm \in ScmRecords
    BY DEF IInv, DataType
  <2>2. j.req.description \in Values
    BY <1>1, <1>2 DEF Place, EditRequest
  <2>3. scm' \in ScmRecords /\ scm'.present
    BY <1>4, <2>1, <2>2, ScmFacts
  <2>4. scm'.present = scm.present
    BY <1>4, <2>1, <2>3, ScmFacts
  <2> QED
    BY <1>1, <1>4, <2>3, <2>4, NativeDoneStep
<1> QED
  BY <1>3, <1>4 DEF ChangeDescription, world

-----------------------------------------------------------------------------
(* Set and unset *)

LEMMA OpenForSetStep ==
    ASSUME IInv, NEW c \in Clients, OpenForSet(c)
    PROVE  IInv'
<1> DEFINE j == cl[c]
           k == cl'[c]
           v == View'
           g == SetGoal(reg, j.req.name, j.req.value)
           plan == SetPlan(j.req.name, j.req.value)
<1>1. j.pc = "open" /\ UNCHANGED <<scm, reg>>
  BY DEF OpenForSet, world
<1>2. lock = c
  BY <1>1, Working DEF IInv, Pcs
<1>3. /\ DataType /\ j \in Job /\ Place(j) /\ Holding(j, View)
      /\ ~scm.present => reg = NoValues
  BY <1>2, Owner
<1>4. torn \/ reg = expected
  <2>1. Agree(View)
    BY <1>1, <1>3 DEF Holding
  <2> QED
    BY <2>1 DEF Agree, View
<1>5. reg \in Registry /\ scm \in ScmRecords
  BY <1>3 DEF DataType
<1>6. CASE ~HasMarker(reg)
  <2>1. Return(c)
    BY <1>6 DEF OpenForSet
  <2> QED
    BY <1>1, <1>2, <1>3, <1>4, <1>5, <2>1, OwnerReturns
<1>7. CASE HasMarker(reg)
  <2>1. /\ cl' = [cl EXCEPT ![c].pc = "set", ![c].orig = reg, ![c].goal = g, ![c].plan = plan]
        /\ intent' = g /\ UNCHANGED <<lock, expected, torn>>
    BY <1>7 DEF OpenForSet
  <2>2. SetRequest(j.req) /\ SetAccepted(j.req.name, j.req.value)
    BY <1>1, <1>3, OpsAssumption DEF Place, RequestOK, Job
  <2>3. plan \in Seq(Call) /\ g \in Registry /\ Underway(reg, plan, g)
    BY <1>5, <2>2, SetPlanLeads DEF SetRequest
  <2>4. HasMarker(g)
    <3>1. "Application" \in Names
      BY DEF Names, OwnedValues
    <3>2. g["Application"] = IF j.req.name = "Application" THEN j.req.value ELSE reg["Application"]
      BY <3>1 DEF SetGoal
    <3>3. j.req.name = "Application" => j.req.value \in Values
      BY <2>2 DEF SetRequest, SetAccepted
    <3> HIDE DEF g
    <3> QED
      BY <1>7, <3>2, <3>3, ConfigAssumption DEF HasMarker
  <2>r. torn \/ g = SetGoal(expected, j.req.name, j.req.value)
    BY <1>4
  <2> HIDE DEF g, plan
  <2>5. k = [j EXCEPT !.pc = "set", !.orig = reg, !.goal = g, !.plan = plan] /\ Others(c)
    BY <1>3, <2>1 DEF DataType, Others
  <2>6. /\ k \in Job /\ k.pc = "set" /\ k.req = j.req /\ k.orig = reg /\ k.goal = g
        /\ k.plan = plan
    BY <1>3, <1>5, <2>3, <2>5 DEF Job, Pcs
  <2>7. DataType'
    <3>1. cl' = [cl EXCEPT ![c] = k]
      BY <1>3, <2>1, <2>5 DEF DataType
    <3> QED
      BY <1>1, <1>3, <2>1, <2>3, <2>6, <3>1 DEF DataType
  <2>8. v = [present |-> scm.present, reg |-> reg, expected |-> expected, torn |-> torn, intent |-> g]
    BY <1>1, <2>1 DEF View
  <2>9. Place(k)
    BY <1>1, <1>3, <2>6 DEF Place, UnlockedPcs
  <2>10. Owns(k)
    BY <1>2, <2>6, OwnerKeepsOwning
  <2> HIDE DEF k, v, j
  <2>11. Agree(v) /\ Gone(v) /\ Kept(v)
    BY <1>3, <1>4, <2>8, AgreeKept DEF Agree, Gone
  <2>12. Sets(k, v)
    <3>1. k.plan = SetCalls(k)
      BY <2>6 DEF SetCalls, plan, j
    <3>2. Halfway(k, v)
      BY <1>4, <2>8, <3>1 DEF Halfway
    <3> QED
      BY <1>4, <1>7, <2>4, <2>6, <2>8, <2>r, <3>2 DEF Sets
  <2>13. Holding(k, v)
    BY <2>3, <2>6, <2>8, <2>12 DEF Holding
  <2> QED
    BY <1>2, <2>1, <2>5, <2>7, <2>9, <2>10, <2>11, <2>13, Inside DEF k, v
<1> QED
  BY <1>6, <1>7

LEMMA SetSteps ==
    ASSUME IInv, NEW c \in Clients, SetDone(c) \/ SetFails(c)
    PROVE  IInv'
<1> DEFINE j == cl[c]
           w == View
<1>1. j.pc = "set" /\ UNCHANGED <<scm, reg>>
  BY DEF SetDone, SetFails, world
<1>2. lock = c
  BY <1>1, Working DEF IInv, Pcs
<1>3. /\ DataType /\ j \in Job /\ Place(j) /\ Holding(j, w)
      /\ ~scm.present => reg = NoValues /\ (torn \/ reg = expected)
  BY <1>2, Owner
<1>4. /\ scm.present => Underway(reg, j.plan, j.goal)
      /\ scm.present /\ ~torn => j.goal = SetGoal(expected, j.req.name, j.req.value)
      /\ scm.present /\ ~torn /\ j.plan = SetCalls(j) => reg = expected
      /\ scm.present /\ ~torn /\ j.plan \notin {SetCalls(j), <<>>} =>
           reg = Apply(expected, Head(SetCalls(j)))
  <2>1. w.present = scm.present /\ w.reg = reg /\ w.torn = torn /\ w.expected = expected
    BY DEF View
  <2> HIDE DEF j, w
  <2> QED
    BY <1>1, <1>3, <2>1 DEF Holding, Sets, Halfway
<1>5. CASE SetDone(c)
  <2>1. j.plan = <<>> /\ ReturnOk(c, FALSE)
    BY <1>5 DEF SetDone
  <2>2. scm.present => reg = j.goal
    BY <1>3, <1>4, <2>1, DoneUnderway DEF DataType, Job
  <2>3. scm.present /\ ~torn => reg = Intended(j.req, expected)
    <3>1. j.req.op = "set"
      BY <1>1, <1>3 DEF Place
    <3> QED
      BY <1>4, <2>2, <3>1 DEF Intended, TouchesManaged
  <2> QED
    BY <1>1, <1>2, <1>3, <2>1, <2>2, <2>3, OwnerReportsOk DEF DataType
<1>6. CASE SetFails(c)
  <2>1. CASE j.plan = SetCalls(j) \/ ~scm.present
    <3>1. Return(c)
      BY <1>6, <2>1 DEF SetFails, SetCalls
    <3>2. torn \/ reg = expected
      BY <1>3, <1>4, <2>1
    <3> QED
      BY <1>1, <1>2, <1>3, <3>1, <3>2, OwnerReturns DEF DataType
  <2>2. CASE j.plan # SetCalls(j) /\ scm.present
    <3>1. ReturnPartial(c, Apply(expected, Head(SetCalls(j)))) /\ j.plan # <<>>
      BY <1>6, <2>2 DEF SetFails, SetCalls
    <3>2. torn \/ reg = Apply(expected, Head(SetCalls(j)))
      BY <1>4, <2>2, <3>1
    <3>3. Apply(expected, Head(SetCalls(j))) \in Registry
      <4> DEFINE call == Head(SetCalls(j))
      <4>1. SetRequest(j.req)
        BY <1>1, <1>3, OpsAssumption DEF Place, Job
      <4>2. SetCalls(j) \in Seq(Call) /\ SetCalls(j) # <<>>
        BY <4>1, SetPlanLength, SetPlanLeads, ConfigNoValues DEF SetRequest, SetCalls
      <4>3. call \in Call
        BY <4>2
      <4> HIDE DEF call
      <4>4. Apply(expected, call) \in Registry
        BY <1>3, <4>3 DEF DataType, Apply, Registry, Call
      <4> QED
        BY <4>4 DEF call
    <3> HIDE DEF j
    <3> DEFINE e == Apply(expected, Head(SetCalls(j)))
    <3>4. e \in Registry /\ (torn \/ reg' = e) /\ ReturnPartial(c, e)
      BY <1>1, <3>1, <3>2, <3>3
    <3> HIDE DEF e
    <3> QED
      BY <1>1, <1>2, <1>3, <3>4, OwnerReturnsPartial DEF DataType
  <2> QED
    BY <2>1, <2>2
<1> QED
  BY <1>5, <1>6

-----------------------------------------------------------------------------
(* Install *)

\* DeleteService takes the values of a service that is stopped with it.
LEMMA DeleteFacts ==
    ASSUME scm \in ScmRecords, reg \in Registry, scm.present, Delete
    PROVE  /\ scm' \in ScmRecords /\ reg' \in Registry
           /\ ~scm'.present => reg' = NoValues
           /\ Stopped(scm) => reg' = NoValues
<1>1. CASE Stopped(scm)
  BY <1>1, ScmFacts, ConfigNoValues DEF Delete
<1>2. CASE ~Stopped(scm)
  <2>1. scm' = [scm EXCEPT !.doomed = TRUE] /\ reg' = reg
    BY <1>2 DEF Delete
  <2>2. scm' \in ScmRecords /\ scm'.present
    BY <2>1, ScmFacts
  <2> QED
    BY <1>2, <2>1, <2>2
<1> QED
  BY <1>1, <1>2

LEMMA CreateServiceStep ==
    ASSUME IInv, NEW c \in Clients, CreateService(c)
    PROVE  IInv'
<1> DEFINE j == cl[c]
           k == cl'[c]
           v == View'
<1>1. j.pc = "create"
  BY DEF CreateService
<1>2. lock = c
  BY <1>1, Working DEF IInv, Pcs
<1>3. /\ DataType /\ j \in Job /\ Place(j) /\ Holding(j, View)
      /\ ~scm.present => reg = NoValues /\ (torn \/ reg = expected)
  BY <1>2, Owner
<1>4. torn \/ reg = expected
  <2>1. Agree(View)
    BY <1>1, <1>3 DEF Holding
  <2> QED
    BY <2>1 DEF Agree, View
<1>5. reg \in Registry /\ scm \in ScmRecords
  BY <1>3 DEF DataType
<1>6. CASE Return(c) /\ UNCHANGED world
  BY <1>2, <1>3, <1>4, <1>5, <1>6, OwnerReturns DEF world
<1>7. CASE /\ ~scm.present /\ scm' = NewService(j.req) /\ reg' = NoValues
           /\ Go(c, "describe_new") /\ UNCHANGED <<lock, abandoned, told, counters>>
  <2>1. UNCHANGED <<lock, expected, torn, intent>>
    BY <1>7 DEF told
  <2>2. scm' \in ScmRecords
    <3>1. InstallRequest(j.req)
      BY <1>1, <1>3, OpsAssumption DEF Place, Job
    <3> QED
      BY <1>7, <3>1 DEF NewService, ScmRecords, InstallRequest, ServiceStates
  <2>3. scm'.present
    BY <1>7 DEF NewService
  <2>4. /\ cl' \in [Clients -> {Idle} \cup Job] /\ Others(c) /\ k \in Job
        /\ k.pc = "describe_new" /\ k.req = j.req
    BY <1>3, <1>7, Went DEF Pcs
  <2>5. DataType'
    BY <1>3, <1>7, <2>1, <2>2, <2>4, ConfigNoValues DEF DataType
  <2>6. torn \/ expected = NoValues
    BY <1>3, <1>7
  <2>7. v.present /\ v.reg = NoValues /\ (v.torn \/ v.expected = NoValues)
    BY <1>7, <2>1, <2>3, <2>6 DEF View
  <2>8. Place(k)
    BY <1>1, <1>3, <2>4 DEF Place, UnlockedPcs
  <2>9. Owns(k)
    BY <1>2, <2>4, OwnerKeepsOwning
  <2> HIDE DEF k, v, j
  <2>10. Gone(v) /\ Kept(v)
    BY <2>7, ConfigNoValues DEF Gone, Kept
  <2>11. Holding(k, v)
    BY <2>4, <2>7 DEF Holding
  <2> QED
    BY <1>2, <2>1, <2>4, <2>5, <2>8, <2>9, <2>10, <2>11, Inside DEF k, v
<1> QED
  BY <1>6, <1>7 DEF CreateService

\* From the description to the configuration, or back out.
LEMMA DescribeNewStep ==
    ASSUME IInv, NEW c \in Clients, DescribeNew(c)
    PROVE  IInv'
<1> DEFINE j == cl[c]
           k == cl'[c]
           v == View'
           cfg == j.req.config
           plan == WritePlan(reg, cfg)
<1>1. j.pc = "describe_new" /\ UNCHANGED <<scm, reg, lock, expected, torn>>
  BY DEF DescribeNew, world, told
<1>2. lock = c
  BY <1>1, Working DEF IInv, Pcs
<1>3. /\ DataType /\ Gone(View) /\ Kept(View) /\ j \in Job /\ Place(j) /\ Holding(j, View)
      /\ ~scm.present => reg = NoValues
  BY <1>2, Owner
<1>4. torn \/ expected = NoValues
  <2>1. View.torn = torn /\ View.expected = expected
    BY DEF View
  <2> QED
    BY <1>1, <1>3, <2>1 DEF Holding
<1>5. cfg \in Registry /\ cfg["AppExit\\Default"] = None /\ reg \in Registry
  <2>1. InstallRequest(j.req)
    BY <1>1, <1>3, OpsAssumption DEF Place, Job
  <2> QED
    BY <1>3, <2>1 DEF InstallRequest, Registry, DataType
<1>6. CASE /\ cl' = [cl EXCEPT ![c].pc = "configure", ![c].goal = cfg, ![c].plan = plan]
           /\ intent' = cfg
  <2>1. plan \in Seq(Call) /\ Underway(reg, plan, cfg)
    BY <1>5, WritePlanLeads
  <2> HIDE DEF plan
  <2>2. k = [j EXCEPT !.pc = "configure", !.goal = cfg, !.plan = plan] /\ Others(c)
    BY <1>3, <1>6 DEF DataType, Others
  <2>3. k \in Job /\ k.pc = "configure" /\ k.req = j.req /\ k.goal = cfg /\ k.plan = plan
    BY <1>3, <1>5, <2>1, <2>2 DEF Job, Pcs
  <2>4. DataType'
    <3>1. cl' = [cl EXCEPT ![c] = k]
      BY <1>3, <1>6, <2>2 DEF DataType
    <3> QED
      BY <1>1, <1>3, <1>5, <1>6, <2>3, <3>1 DEF DataType
  <2>5. v = [present |-> scm.present, reg |-> reg, expected |-> expected, torn |-> torn, intent |-> cfg]
    BY <1>1, <1>6 DEF View
  <2>6. Place(k)
    BY <1>1, <1>3, <2>3 DEF Place, UnlockedPcs
  <2>7. Owns(k)
    BY <1>2, <2>3, OwnerKeepsOwning
  <2>8. Gone(View) => Gone(v)
    BY <2>5 DEF Gone, Agree, View
  <2> HIDE DEF k, v, j
  <2>9. Kept(v)
    BY <1>4, <2>5, ConfigNoValues DEF Kept
  <2>10. Holding(k, v)
    BY <1>4, <2>1, <2>3, <2>5 DEF Holding, j
  <2> QED
    BY <1>1, <1>2, <1>3, <2>2, <2>4, <2>6, <2>7, <2>8, <2>9, <2>10, Inside DEF k, v
<1>7. CASE Go(c, "uninstall") /\ intent' = intent
  <2>1. /\ cl' \in [Clients -> {Idle} \cup Job] /\ Others(c) /\ k \in Job
        /\ k.pc = "uninstall" /\ k.req = j.req
    BY <1>3, <1>7, Went DEF Pcs
  <2>2. DataType' /\ v = View
    BY <1>1, <1>3, <1>7, <2>1 DEF DataType, View
  <2>3. Place(k)
    BY <1>1, <1>3, <2>1 DEF Place, UnlockedPcs
  <2>4. Owns(k)
    BY <1>2, <2>1, OwnerKeepsOwning
  <2>5. v.torn = torn /\ v.expected = expected
    BY <2>2 DEF View
  <2> HIDE DEF k, v, j
  <2>6. Holding(k, v)
    BY <1>4, <2>1, <2>5 DEF Holding
  <2> QED
    BY <1>1, <1>2, <1>3, <2>1, <2>2, <2>3, <2>4, <2>6, Inside DEF k, v
<1> QED
  BY <1>6, <1>7 DEF DescribeNew, told

LEMMA ConfigureSteps ==
    ASSUME IInv, NEW c \in Clients, Configured(c) \/ ConfigureFails(c)
    PROVE  IInv'
<1> DEFINE j == cl[c]
           w == View
<1>1. j.pc = "configure" /\ UNCHANGED <<scm, reg>>
  BY DEF Configured, ConfigureFails, world
<1>2. lock = c
  BY <1>1, Working DEF IInv, Pcs
<1>3. DataType /\ Gone(w) /\ Kept(w) /\ j \in Job /\ Place(j) /\ Holding(j, w)
  BY <1>2, Owner
<1>4. /\ torn \/ expected = NoValues
      /\ j.goal = j.req.config /\ (scm.present => Underway(reg, j.plan, j.goal))
  <2>1. w.present = scm.present /\ w.reg = reg /\ w.torn = torn /\ w.expected = expected
    BY DEF View
  <2> HIDE DEF j, w
  <2> QED
    BY <1>1, <1>3, <2>1 DEF Holding
<1>5. CASE Configured(c)
  <2>1. j.plan = <<>> /\ ReturnOk(c, TRUE)
    BY <1>5 DEF Configured
  <2>2. scm.present => reg = j.goal
    BY <1>3, <1>4, <2>1, DoneUnderway DEF DataType, Job
  <2>3. scm.present /\ ~torn => reg = Intended(j.req, expected)
    <3>1. j.req.op = "install"
      BY <1>1, <1>3 DEF Place
    <3> QED
      BY <1>4, <2>2, <3>1 DEF Intended, TouchesManaged
  <2> QED
    BY <1>1, <1>2, <1>3, <2>1, <2>2, <2>3, OwnerReportsOk DEF DataType
<1>6. CASE ConfigureFails(c)
  <2> DEFINE k == cl'[c]
             v == View'
  <2>1. Go(c, "uninstall") /\ UNCHANGED <<lock, expected, torn, intent>>
    BY <1>6 DEF ConfigureFails, told
  <2>2. /\ cl' \in [Clients -> {Idle} \cup Job] /\ Others(c) /\ k \in Job
        /\ k.pc = "uninstall" /\ k.req = j.req
    BY <1>3, <2>1, Went DEF Pcs
  <2>3. DataType' /\ v = w
    BY <1>1, <1>3, <2>1, <2>2 DEF DataType, View
  <2>4. Place(k)
    BY <1>1, <1>3, <2>2 DEF Place, UnlockedPcs
  <2>5. Owns(k)
    BY <1>2, <2>2, OwnerKeepsOwning
  <2>6. w.torn = torn /\ w.expected = expected
    BY DEF View
  <2> HIDE DEF k, v, j, w
  <2>7. Holding(k, v)
    BY <1>4, <2>2, <2>3, <2>6 DEF Holding
  <2> QED
    BY <1>2, <1>3, <2>1, <2>2, <2>3, <2>4, <2>5, <2>7, Inside DEF k, v, w
<1> QED
  BY <1>5, <1>6

LEMMA UninstallStep ==
    ASSUME IInv, NEW c \in Clients, Uninstall(c)
    PROVE  IInv'
<1> DEFINE j == cl[c]
<1>1. j.pc = "uninstall"
  BY DEF Uninstall
<1>2. lock = c
  BY <1>1, Working DEF IInv, Pcs
<1>3. /\ DataType /\ Holding(j, View)
      /\ ~scm.present => reg = NoValues
  BY <1>2, Owner
<1>4. torn \/ expected = NoValues
  <2>1. View.torn = torn /\ View.expected = expected
    BY DEF View
  <2> QED
    BY <1>1, <1>3, <2>1 DEF Holding
<1>5. reg \in Registry /\ scm \in ScmRecords
  BY <1>3 DEF DataType
<1>6. CASE ReturnTorn(c) /\ UNCHANGED world
  BY <1>2, <1>3, <1>5, <1>6, OwnerReturnsTorn DEF world
<1>7. CASE scm.present /\ Delete /\ IF Stopped(scm) THEN Return(c) ELSE ReturnPartial(c, reg)
  <2>1. /\ scm' \in ScmRecords /\ reg' \in Registry
        /\ ~scm'.present => reg' = NoValues
        /\ Stopped(scm) => reg' = NoValues
    BY <1>5, <1>7, DeleteFacts
  <2>2. CASE Stopped(scm)
    BY <1>2, <1>4, <1>7, <2>1, <2>2, OwnerReturns
  <2>3. CASE ~Stopped(scm)
    <3>1. reg' = reg /\ ReturnPartial(c, reg)
      BY <1>7, <2>3 DEF Delete
    <3> QED
      BY <1>2, <1>5, <2>1, <3>1, OwnerReturnsPartial
  <2> QED
    BY <2>2, <2>3
<1> QED
  BY <1>6, <1>7 DEF Uninstall

-----------------------------------------------------------------------------
(* Remove *)

LEMMA RemoveChecksStep ==
    ASSUME IInv, NEW c \in Clients, RemoveChecks(c)
    PROVE  IInv'
<1> DEFINE j == cl[c]
           k == cl'[c]
<1>1. j.pc = "query" /\ j.req.op = "remove" /\ UNCHANGED <<scm, reg>>
  BY DEF RemoveChecks, world
<1>2. lock = c
  BY <1>1, Working DEF IInv, Pcs
<1>3. /\ DataType /\ Gone(View) /\ Kept(View) /\ j \in Job /\ Place(j) /\ Holding(j, View)
      /\ ~scm.present => reg = NoValues
  BY <1>2, Owner
<1>4. Agree(View)
  BY <1>1, <1>3 DEF Holding
<1>5. CASE Return(c)
  <2>1. torn \/ reg = expected
    BY <1>4 DEF Agree, View
  <2> QED
    BY <1>1, <1>2, <1>3, <1>5, <2>1, OwnerReturns DEF DataType
<1>6. CASE ~Return(c)
  <2>1. Go(c, "delete") /\ UNCHANGED <<lock, expected, torn, intent>>
    BY <1>6 DEF RemoveChecks, told
  <2>2. /\ cl' \in [Clients -> {Idle} \cup Job] /\ Others(c) /\ k \in Job
        /\ k.pc = "delete" /\ k.req = j.req
    BY <1>3, <2>1, Went DEF Pcs
  <2>3. DataType' /\ View' = View
    BY <1>1, <1>3, <2>1, <2>2 DEF DataType, View
  <2>4. Place(k)
    BY <1>1, <1>3, <2>2 DEF Place, UnlockedPcs
  <2>5. Owns(k)
    BY <1>2, <2>2, OwnerKeepsOwning
  <2> DEFINE w == View
  <2> HIDE DEF k, w
  <2>6. Holding(k, w)
    BY <1>4, <2>2 DEF Holding, w
  <2> QED
    BY <1>2, <1>3, <2>1, <2>2, <2>3, <2>4, <2>5, <2>6, Inside DEF k, w
<1> QED
  BY <1>5, <1>6

LEMMA DeleteServiceStep ==
    ASSUME IInv, NEW c \in Clients, DeleteService(c)
    PROVE  IInv'
<1> DEFINE j == cl[c]
           k == cl'[c]
           v == View'
<1>1. j.pc = "delete"
  BY DEF DeleteService
<1>2. lock = c
  BY <1>1, Working DEF IInv, Pcs
<1>3. /\ DataType /\ j \in Job /\ Place(j) /\ Holding(j, View)
      /\ ~scm.present => reg = NoValues
  BY <1>2, Owner
<1>4. torn \/ reg = expected
  <2>1. Agree(View)
    BY <1>1, <1>3 DEF Holding
  <2> QED
    BY <2>1 DEF Agree, View
<1>5. reg \in Registry /\ scm \in ScmRecords
  BY <1>3 DEF DataType
<1>6. CASE Return(c) /\ UNCHANGED world
  BY <1>2, <1>3, <1>4, <1>5, <1>6, OwnerReturns DEF world
<1>7. CASE /\ scm.present /\ Delete /\ Go(c, "purge") /\ expected' = reg'
           /\ torn' = (torn /\ ~Stopped(scm)) /\ UNCHANGED <<lock, intent>>
  <2>1. /\ scm' \in ScmRecords /\ reg' \in Registry
        /\ ~scm'.present => reg' = NoValues
    BY <1>5, <1>7, DeleteFacts
  <2>2. /\ cl' \in [Clients -> {Idle} \cup Job] /\ Others(c) /\ k \in Job
        /\ k.pc = "purge" /\ k.req = j.req
    BY <1>3, <1>7, Went DEF Pcs
  <2>3. torn' \in BOOLEAN
    BY <1>7, Zenon
  <2>e. UNCHANGED <<lock, intent>> /\ expected' = reg'
    BY <1>7
  <2>4. DataType'
    BY <1>3, <2>1, <2>2, <2>3, <2>e DEF DataType
  <2>5. Place(k)
    BY <1>1, <1>3, <2>2 DEF Place, UnlockedPcs
  <2>6. Owns(k)
    BY <1>2, <2>2, OwnerKeepsOwning
  <2>7. Agree(v)
    BY <2>e DEF Agree, View
  <2>8. Gone(v)
    BY <2>1, <2>7 DEF Gone, View
  <2> HIDE DEF k, v
  <2>9. Kept(v)
    BY <2>7, AgreeKept
  <2>10. Holding(k, v)
    BY <2>2, <2>7 DEF Holding
  <2> QED
    BY <1>2, <2>2, <2>4, <2>5, <2>6, <2>8, <2>9, <2>10, <2>e, Inside DEF k, v
<1> QED
  BY <1>6, <1>7 DEF DeleteService

LEMMA PurgeStep ==
    ASSUME IInv, NEW c \in Clients, Purge(c)
    PROVE  IInv'
<1> DEFINE j == cl[c]
           k == cl'[c]
           v == View'
<1>1. j.pc = "purge" /\ UNCHANGED <<scm, reg>>
  BY DEF Purge, world
<1>2. lock = c
  BY <1>1, Working DEF IInv, Pcs
<1>3. /\ DataType /\ j \in Job /\ Place(j) /\ Holding(j, View)
      /\ ~scm.present => reg = NoValues
  BY <1>2, Owner
<1>4. torn \/ reg = expected
  <2>1. Agree(View)
    BY <1>1, <1>3 DEF Holding
  <2> QED
    BY <2>1 DEF Agree, View
<1>5. CASE Return(c)
  BY <1>1, <1>2, <1>3, <1>4, <1>5, OwnerReturns DEF DataType
<1>6. CASE ~Return(c)
  <2>1. /\ cl' = [cl EXCEPT ![c].pc = "scrub", ![c].orig = reg, ![c].plan = ScrubPlan,
                            ![c].goal = NoValues]
        /\ intent' = NoValues /\ UNCHANGED <<lock, expected, torn>> /\ Readable(reg)
    BY <1>6 DEF Purge
  <2>2. ScrubPlan \in Seq(Call) /\ Underway(reg, ScrubPlan, NoValues)
    BY <1>3, ScrubPlanLeads DEF DataType
  <2>3. NoValues \in Registry /\ \A n \in Names : Config(NoValues)[n] = None
    BY ConfigNoValues
  <2>4. /\ k = [j EXCEPT !.pc = "scrub", !.orig = reg, !.plan = ScrubPlan, !.goal = NoValues]
        /\ Others(c) /\ reg \in Registry
    BY <1>3, <2>1 DEF DataType, Others
  <2>5. /\ k \in Job /\ k.pc = "scrub" /\ k.req = j.req /\ k.goal = NoValues
        /\ k.plan = ScrubPlan /\ k.orig = reg
    BY <1>3, <2>2, <2>3, <2>4 DEF Job, Pcs
  <2>6. DataType'
    <3>1. cl' = [cl EXCEPT ![c] = k]
      BY <1>3, <2>1, <2>4 DEF DataType
    <3> QED
      BY <1>1, <1>3, <2>1, <2>3, <2>5, <3>1 DEF DataType
  <2>7. v = [present |-> scm.present, reg |-> reg, expected |-> expected, torn |-> torn,
             intent |-> NoValues]
    BY <1>1, <2>1 DEF View
  <2>8. Place(k)
    BY <1>1, <1>3, <2>5 DEF Place, UnlockedPcs
  <2>9. Owns(k)
    BY <1>2, <2>5, OwnerKeepsOwning
  <2> HIDE DEF k, v, j
  <2>10. Gone(v) /\ Kept(v)
    BY <1>3, <1>4, <2>3, <2>7 DEF Gone, Agree, Kept
  <2>11. Holding(k, v)
    BY <2>1, <2>2, <2>5, <2>7 DEF Holding
  <2> QED
    BY <1>2, <2>1, <2>4, <2>6, <2>8, <2>9, <2>10, <2>11, Inside DEF k, v
<1> QED
  BY <1>5, <1>6

LEMMA ScrubStep ==
    ASSUME IInv, NEW c \in Clients, Scrub(c)
    PROVE  IInv'
<1> DEFINE j == cl[c]
           k == cl'[c]
           w == View
           v == View'
           s == Apply(reg, Head(j.plan))
<1>1. /\ j.pc = "scrub" /\ j.plan # <<>> /\ UNCHANGED <<scm, lock, expected, torn, intent>>
  BY DEF Scrub
<1>2. lock = c
  BY <1>1, Working DEF IInv, Pcs
<1>3. /\ DataType /\ Gone(w) /\ j \in Job /\ Place(j) /\ Holding(j, w)
      /\ ~scm.present => reg = NoValues /\ (torn \/ reg = expected)
  BY <1>2, Owner
<1>4. /\ j.goal = NoValues /\ intent = NoValues /\ Readable(j.orig)
      /\ scm.present /\ ~j.failed => Underway(reg, j.plan, NoValues)
  <2>1. w.present = scm.present /\ w.reg = reg /\ w.intent = intent
    BY DEF View
  <2> HIDE DEF j, w
  <2> QED
    BY <1>1, <1>3, <2>1 DEF Holding
<1>5. /\ reg \in Registry /\ j.plan \in Seq(Call) /\ NoValues \in Registry
      /\ \A n \in Names : Config(NoValues)[n] = None
  BY <1>3, ConfigNoValues DEF DataType, Job
<1>6. Head(j.plan) \in Call /\ Tail(j.plan) \in Seq(Call)
  BY <1>1, <1>5, HeadTailProperties
<1>7. CASE /\ scm.present /\ reg' = s /\ cl' = [cl EXCEPT ![c].plan = Tail(@)]
  <2>1. s \in Registry
    <3> DEFINE call == Head(j.plan)
    <3>1. call \in Call
      BY <1>6
    <3> HIDE DEF call
    <3>2. Apply(reg, call) \in Registry
      BY <1>5, <3>1 DEF Apply, Registry, Call
    <3> QED
      BY <3>2 DEF call
  <2>2. ~j.failed => Underway(s, Tail(j.plan), NoValues)
    BY <1>1, <1>4, <1>5, <1>7, StepUnderway
  <2>3. k = [j EXCEPT !.plan = Tail(j.plan)] /\ Others(c)
    BY <1>3, <1>7 DEF DataType, Others
  <2>4. /\ k \in Job /\ k.pc = "scrub" /\ k.req = j.req /\ k.goal = NoValues
        /\ k.plan = Tail(j.plan) /\ k.failed = j.failed /\ k.orig = j.orig
    BY <1>1, <1>3, <1>4, <1>6, <2>3 DEF Job
  <2>5. DataType'
    <3>1. cl' = [cl EXCEPT ![c] = k]
      BY <1>3, <1>7, <2>3 DEF DataType
    <3> QED
      BY <1>1, <1>3, <1>7, <2>1, <2>4, <3>1 DEF DataType
  <2>6. v.present /\ v.reg = s /\ v.intent = NoValues
    BY <1>1, <1>4, <1>7 DEF View
  <2>7. Place(k)
    BY <1>1, <1>3, <2>4 DEF Place
  <2>8. Owns(k)
    BY <1>2, <2>4, OwnerKeepsOwning
  <2> HIDE DEF k, v, j, s
  <2>9. Gone(v) /\ Kept(v)
    BY <1>5, <2>6 DEF Gone, Kept
  <2>10. Holding(k, v)
    BY <1>4, <2>2, <2>4, <2>6 DEF Holding
  <2> QED
    BY <1>1, <1>2, <2>3, <2>5, <2>7, <2>8, <2>9, <2>10, Inside DEF k, v
<1>8. CASE reg' = reg /\ cl' = [cl EXCEPT ![c].plan = Tail(@), ![c].failed = TRUE]
  <2>1. k = [j EXCEPT !.plan = Tail(j.plan), !.failed = TRUE] /\ Others(c)
    BY <1>3, <1>8 DEF DataType, Others
  <2>2. /\ k \in Job /\ k.pc = "scrub" /\ k.req = j.req /\ k.goal = NoValues /\ k.failed = TRUE
        /\ k.orig = j.orig
    BY <1>1, <1>3, <1>4, <1>6, <2>1 DEF Job
  <2>3. DataType'
    <3>1. cl' = [cl EXCEPT ![c] = k]
      BY <1>3, <1>8, <2>1 DEF DataType
    <3> QED
      BY <1>1, <1>3, <1>8, <2>2, <3>1 DEF DataType
  <2>4. v = w /\ v.intent = NoValues
    BY <1>1, <1>4, <1>8 DEF View
  <2>5. Place(k)
    BY <1>1, <1>3, <2>2 DEF Place
  <2>6. Owns(k)
    BY <1>2, <2>2, OwnerKeepsOwning
  <2> HIDE DEF k, v, j, w
  <2>7. Gone(v) /\ Kept(v)
    BY <1>3, <1>5, <2>4 DEF Kept
  <2>8. Holding(k, v)
    BY <1>4, <2>2, <2>4 DEF Holding
  <2> QED
    BY <1>1, <1>2, <2>1, <2>3, <2>5, <2>6, <2>7, <2>8, Inside DEF k, v
<1> QED
  BY <1>7, <1>8 DEF Scrub

LEMMA ScrubbedStep ==
    ASSUME IInv, NEW c \in Clients, Scrubbed(c)
    PROVE  IInv'
<1> DEFINE j == cl[c]
           w == View
<1>1. j.pc = "scrub" /\ j.plan = <<>> /\ UNCHANGED <<scm, reg>>
  BY DEF Scrubbed, world
<1>2. lock = c
  BY <1>1, Working DEF IInv, Pcs
<1>3. /\ DataType /\ j \in Job /\ Place(j) /\ Holding(j, w)
      /\ ~scm.present => reg = NoValues
  BY <1>2, Owner
<1>4. j.goal = NoValues /\ (scm.present /\ ~j.failed => Underway(reg, <<>>, NoValues))
  <2>1. w.present = scm.present /\ w.reg = reg
    BY DEF View
  <2> HIDE DEF j, w
  <2> QED
    BY <1>1, <1>3, <2>1 DEF Holding
<1>5. CASE j.failed
  <2>1. ReturnTorn(c)
    BY <1>5 DEF Scrubbed
  <2> QED
    BY <1>1, <1>2, <1>3, <2>1, OwnerReturnsTorn DEF DataType
<1>6. CASE ~j.failed
  <2>1. ReturnOk(c, TRUE)
    BY <1>6 DEF Scrubbed
  <2>2. scm.present => reg = NoValues
    BY <1>3, <1>4, <1>6, DoneUnderway, ConfigNoValues DEF DataType
  <2>3. scm.present /\ ~torn => reg = Intended(j.req, expected)
    <3>1. j.req.op = "remove"
      BY <1>1, <1>3 DEF Place
    <3> QED
      BY <2>2, <3>1 DEF Intended, TouchesManaged
  <2> QED
    BY <1>1, <1>2, <1>3, <1>4, <2>1, <2>2, <2>3, OwnerReportsOk DEF DataType
<1> QED
  BY <1>5, <1>6

-----------------------------------------------------------------------------
(* The theorems *)

LEMMA InitInv == Init => IInv
<1> SUFFICES ASSUME Init PROVE IInv
  OBVIOUS
<1>1. PICK s \in InitialServices : scm = s.scm /\ reg = s.reg
  BY DEF Init
<1>2. scm \in ScmRecords /\ reg \in Registry /\ (~scm.present => reg = NoValues)
  BY <1>1, OpsAssumption
<1>3. lock = NoOne /\ cl = [c \in Clients |-> Idle] /\ expected = reg /\ torn = FALSE /\ intent = reg
  BY DEF Init
<1>4. DataType /\ PlaceInv
  BY <1>2, <1>3 DEF DataType, PlaceInv
<1>5. LockInv
  BY <1>3, OpsAssumption DEF LockInv, Owns
<1>6. Agree(View)
  BY <1>3 DEF Agree, View
<1>7. Gone(View)
  BY <1>2, <1>6 DEF Gone, View
<1> QED
  BY <1>3, <1>4, <1>5, <1>6, <1>7, AgreeKept DEF IInv, HoldInv

LEMMA StepInv == IInv /\ [Next]_vars => IInv'
<1> SUFFICES ASSUME IInv, [Next]_vars PROVE IInv'
  OBVIOUS
<1>1. CASE UNCHANGED vars
  BY <1>1 DEF vars, IInv, DataType, PlaceInv, LockInv, HoldInv, View
<1>2. CASE ServiceStep
  BY <1>2, ServiceSteps
<1>3. ASSUME NEW c \in Clients, ClientStep(c) PROVE IInv'
  <2>1. CASE Acquire(c) \/ LockTimeout(c)
    BY <2>1, AcquireStep, LockTimeoutStep
  <2>2. CASE ReadConfig(c) \/ RegistryCall(c)
    BY <2>2, ReadConfigStep, RegistryCallStep
  <2>3. CASE WriteFails(c) \/ WriteDone(c) \/ UndoDone(c) \/ UndoFails(c)
    BY <2>3, WriteSteps, UndoSteps
  <2>4. CASE ChangeConfig(c) \/ ChangeDescription(c)
    BY <2>4, ChangeConfigStep, ChangeDescriptionStep
  <2>5. CASE OpenForSet(c) \/ SetDone(c) \/ SetFails(c)
    BY <2>5, OpenForSetStep, SetSteps
  <2>6. CASE CreateService(c) \/ DescribeNew(c) \/ Configured(c) \/ ConfigureFails(c) \/ Uninstall(c)
    BY <2>6, CreateServiceStep, DescribeNewStep, ConfigureSteps, UninstallStep
  <2>7. CASE RemoveChecks(c) \/ DeleteService(c) \/ Purge(c) \/ Scrub(c) \/ Scrubbed(c)
    BY <2>7, RemoveChecksStep, DeleteServiceStep, PurgeStep, ScrubStep, ScrubbedStep
  <2>8. CASE Check(c) \/ Rebind(c) \/ StartService(c) \/ Control(c) \/ Poll(c) \/ PollTimeout(c)
    BY <2>8, UnlockedSteps
  <2> QED
    BY <1>3, <2>1, <2>2, <2>3, <2>4, <2>5, <2>6, <2>7, <2>8 DEF ClientStep
<1>4. ASSUME NEW c \in Clients, Crash(c) PROVE IInv'
  BY <1>4, CrashStep
<1>5. ASSUME NEW c \in Clients, NEW r \in Requests, Begin(c, r) PROVE IInv'
  BY <1>5, BeginStep
<1> QED
  BY <1>1, <1>2, <1>3, <1>4, <1>5 DEF Next

\* The place of every process, its claim to the mutex, and how the values relate to
\* what was told at that place: the inductive invariant.
THEOREM OpsInvariant == Spec => []IInv
  BY InitInv, StepInv, PTL DEF Spec

\* Types, for every set of requests and services of the right shape.
THEOREM TypeCorrect == Spec => []TypeOK
<1> DEFINE B == abandoned \in BOOLEAN
<1>1. Init => B
  BY DEF Init
<1>2. ASSUME B, [Next]_vars PROVE B'
  <2>1. CASE abandoned' = abandoned
    BY <1>2, <2>1
  <2>2. CASE abandoned' # abandoned
    <3>1. PICK c \in Clients : ClientStep(c) \/ Crash(c)
      BY <1>2, <2>2 DEF Next, vars, ServiceStep, Begin
    <3>2. CASE Acquire(c)
      BY <3>2 DEF Acquire
    <3>3. CASE Crash(c)
      BY <3>3, Zenon DEF Crash
    <3>4. ~(LockTimeout(c) \/ ReadConfig(c) \/ RegistryCall(c) \/ WriteFails(c) \/ WriteDone(c)
            \/ UndoDone(c) \/ UndoFails(c))
      BY <2>2 DEF LockTimeout, ReadConfig, RegistryCall, WriteFails, WriteDone, UndoDone,
                  UndoFails, RollBack, Return, ReturnTorn, ReturnOk
    <3>5. ~(ChangeConfig(c) \/ ChangeDescription(c) \/ OpenForSet(c) \/ SetDone(c) \/ SetFails(c))
      BY <2>2 DEF ChangeConfig, ChangeDescription, NativeDone, NativeFails, RollBack, OpenForSet,
                  SetDone, SetFails, Return, ReturnPartial, ReturnTorn, ReturnOk
    <3>6. ~(CreateService(c) \/ DescribeNew(c) \/ Configured(c) \/ ConfigureFails(c) \/ Uninstall(c))
      BY <2>2 DEF CreateService, DescribeNew, Configured, ConfigureFails, Uninstall,
                  Return, ReturnPartial, ReturnTorn, ReturnOk
    <3>7. ~(RemoveChecks(c) \/ DeleteService(c) \/ Purge(c) \/ Scrub(c) \/ Scrubbed(c))
      BY <2>2 DEF RemoveChecks, DeleteService, Purge, Scrub, Scrubbed, Return, ReturnTorn, ReturnOk
    <3>8. ~(Check(c) \/ Rebind(c) \/ StartService(c) \/ Control(c) \/ Poll(c) \/ PollTimeout(c))
      BY <2>2 DEF Check, Rebind, StartService, Control, Poll, PollTimeout, Return
    <3> QED
      BY <3>1, <3>2, <3>3, <3>4, <3>5, <3>6, <3>7, <3>8 DEF ClientStep
  <2> QED
    BY <2>1, <2>2
<1>3. IInv /\ B => TypeOK
  BY DEF IInv, DataType, TypeOK
<1> QED
  BY <1>1, <1>2, <1>3, OpsInvariant, PTL DEF Spec

\* No update of two processes is lost, and whoever was not warned of a partial change
\* finds the values as the requests left them, each whole or not at all, but for a
\* clear that stopped between its deletes and a rolled back install that was started
\* (lock_service_config, edit_with_backend, rollback_managed, set_value, install,
\* remove).
THEOREM SettledAsReportedAlways == Spec => []SettledAsReported
<1>1. IInv => SettledAsReported
  <2> SUFFICES ASSUME IInv, lock = NoOne, ~torn PROVE SameReading(reg, expected)
    BY DEF SettledAsReported
  <2>1. Agree(View)
    BY DEF IInv, HoldInv
  <2>2. reg = expected
    BY <2>1 DEF Agree, View
  <2> QED
    BY <2>2 DEF SameReading
<1> QED
  BY <1>1, OpsInvariant, PTL

\* rollback_managed writes back what it read: that is read as the original was.
THEOREM RestoredReadsTheSame ==
    ASSUME NEW r \in Registry, Readable(r)
    PROVE  SameReading(Config(r), r)
<1> DEFINE c == Config(r)
<1>0. Names = {"Application", "AppDirectory", "AppStdout", "AppStdoutShareMode",
               "AppExit\\1", "AppExit\\", "AppExit\\Default", "AppEvents"}
  BY DEF Names, OwnedValues, ExitNames
<1>1. /\ Config(c) = c /\ c["AppExit\\Default"] = None /\ HasMarker(c)
  BY ConfigFacts
<1>2. c["AppStdout"] = r["AppStdout"] /\ c["AppEvents"] = r["AppEvents"]
  BY <1>0 DEF Config, ReadNames
<1>3. ReadNames(c) = ReadNames(r)
  BY <1>2 DEF ReadNames
<1>4. \A n \in ReadNames(r) \ (ExitNames \cup {"AppEvents"}) : c[n] = r[n]
  BY DEF Config, ReadNames, ExitNames
<1>5. /\ c["AppExit\\1"] = r["AppExit\\1"]
      /\ c["AppExit\\"] = r["AppExit\\"] \/ c["AppExit\\"] = r["AppExit\\Default"]
  BY <1>0 DEF Config, ReadNames
<1>6. ScalarsDecode(r) /\ ExitActionsDecode(r) /\ HooksDecode(r)
  BY DEF Readable, Unreadable
<1>7. Bad # None
  BY ConfigAssumption
<1> HIDE DEF c
<1>8. ScalarsDecode(c)
  BY <1>3, <1>4, <1>6 DEF ScalarsDecode
<1>9. ExitActionsDecode(c) /\ HooksDecode(c)
  BY <1>1, <1>2, <1>5, <1>6, <1>7
  DEF ExitActionsDecode, HooksDecode, StringsDecode, ConflictingAliases, ExitNames
<1>10. ~Native(c)
  BY <1>1 DEF HasMarker, Native
<1>11. ReadManaged(c) = "managed" /\ ReadManaged(r) = "managed"
  BY <1>8, <1>9, <1>10 DEF ReadManaged, Readable, Unreadable
<1> QED
  BY <1>1, <1>11 DEF SameReading, c

\* Whatever fails and whoever dies, a setting that the configuration had and was to
\* keep is there at every moment (write_into_key, rollback_managed).
THEOREM NeverErasedAlways == Spec => []NeverErased
<1>1. IInv => NeverErased
  BY DEF IInv, Kept, View, NeverErased
<1> QED
  BY <1>1, OpsInvariant, PTL

\* Nobody but an install and a purge that read a whole configuration before its first
\* delete writes to a service that has no marker (require_managed_marker,
\* is_managed_for_purge).
THEOREM NativeUntouchedAlways == Spec => NativeUntouched
<1> DEFINE Entitled(c) ==
             /\ lock = c
             /\ cl[c].pc = "configure" \/ (cl[c].pc = "scrub" /\ Readable(cl[c].orig))
           A == reg' # reg /\ scm.present /\ scm'.present /\ ~HasMarker(reg) =>
                   \E c \in Clients : Entitled(c)
<1>1. ASSUME IInv, [Next]_vars PROVE [A]_vars
  <2> SUFFICES ASSUME reg' # reg, scm.present, scm'.present, ~HasMarker(reg), Next
               PROVE  \E c \in Clients : Entitled(c)
    BY <1>1 DEF vars
  <2>0. ~Delete
    BY ScmFacts DEF Delete
  <2>1. ~ServiceStep
    BY ScmFacts DEF ServiceStep
  <2>2. PICK c \in Clients : ClientStep(c) \/ Crash(c) \/ \E r \in Requests : Begin(c, r)
    BY <2>1 DEF Next
  <2>3. ~Crash(c) /\ ~(\E r \in Requests : Begin(c, r))
    BY DEF Crash, Begin, world
  <2>4. RegistryCall(c) \/ Scrub(c)
    <3>1. ~(Acquire(c) \/ LockTimeout(c) \/ ReadConfig(c) \/ WriteFails(c) \/ WriteDone(c)
            \/ UndoDone(c) \/ UndoFails(c) \/ ChangeConfig(c) \/ ChangeDescription(c))
      BY DEF Acquire, LockTimeout, ReadConfig, WriteFails, WriteDone, UndoDone, UndoFails,
             ChangeConfig, ChangeDescription, world
    <3>2. ~(OpenForSet(c) \/ SetDone(c) \/ SetFails(c) \/ DescribeNew(c) \/ Configured(c)
            \/ ConfigureFails(c) \/ RemoveChecks(c) \/ Purge(c) \/ Scrubbed(c))
      BY DEF OpenForSet, SetDone, SetFails, DescribeNew, Configured, ConfigureFails,
             RemoveChecks, Purge, Scrubbed, world
    <3>3. ~(Check(c) \/ Rebind(c) \/ StartService(c) \/ Control(c) \/ Poll(c) \/ PollTimeout(c))
      BY DEF Check, Rebind, StartService, Control, Poll, PollTimeout, world
    <3>4. ~(CreateService(c) \/ Uninstall(c) \/ DeleteService(c))
      BY <2>0 DEF CreateService, Uninstall, DeleteService, world
    <3> QED
      BY <2>2, <2>3, <3>1, <3>2, <3>3, <3>4 DEF ClientStep
  <2>5. cl[c].pc \in {"write", "undo", "set", "configure", "scrub"}
    BY <2>4 DEF RegistryCall, Scrub
  <2>6. lock = c
    BY <1>1, <2>5, Working DEF IInv, Pcs
  <2>7. /\ cl[c].pc \in {"write", "undo", "set"} => HasMarker(reg)
        /\ cl[c].pc = "scrub" => Readable(cl[c].orig)
    <3>1. Holding(cl[c], View)
      BY <1>1, <2>6, Owner
    <3>2. View.present /\ View.reg = reg
      BY DEF View
    <3> DEFINE j == cl[c]
               w == View
    <3> HIDE DEF j, w
    <3>3. /\ j.pc \in {"write", "undo", "set"} => HasMarker(w.reg)
          /\ j.pc = "scrub" => Readable(j.orig)
      BY <3>1, <3>2 DEF Holding, Edits, Original, Sets, j, w
    <3> QED
      BY <3>2, <3>3 DEF j, w
  <2> QED
    BY <2>5, <2>6, <2>7
<1> QED
  BY <1>1, OpsInvariant, PTL DEF Spec, NativeUntouched

\* Nobody but the owner of the mutex is in the middle of a change to the
\* configuration (lock_service_config).
Exclusive ==
    \A c, d \in Clients :
        /\ cl[c].pc \in {"write", "undo", "set", "configure", "scrub"}
        /\ cl[d].pc \in {"read", "write", "undo", "open", "set", "create", "describe_new",
                         "configure", "uninstall", "delete", "purge", "scrub"}
        => c = d

\* Two processes never interleave their registry calls, nor does one read what another
\* is writing (lock_service_config; an abandoned mutex included).
THEOREM ExclusiveAlways == Spec => []Exclusive
<1>1. IInv => Exclusive
  <2> SUFFICES ASSUME IInv, NEW c \in Clients, NEW d \in Clients,
                      cl[c].pc \in {"write", "undo", "set", "configure", "scrub"},
                      cl[d].pc \in {"read", "write", "undo", "open", "set", "create",
                                    "describe_new", "configure", "uninstall", "delete",
                                    "purge", "scrub"}
               PROVE  c = d
    BY DEF Exclusive
  <2>1. lock = c /\ lock = d
    BY Working DEF IInv, Pcs
  <2> QED
    BY <2>1
<1> QED
  BY <1>1, OpsInvariant, PTL

-----------------------------------------------------------------------------
(* CONVERSIONS *)

\* A set of natural numbers has a least element.
LEMMA LeastOf ==
    ASSUME NEW I \in SUBSET Nat, I # {}
    PROVE  Min(I) \in I /\ \A j \in I : Min(I) <= j
<1> DEFINE R == OpToRel(<, Nat)
<1>1. IsWellFoundedOn(R, Nat)
  BY NatLessThanWellFounded
<1>2. PICK x \in I : \A y \in I : ~(<<y, x>> \in R)
  <2> HIDE DEF R
  <2> QED
    BY <1>1, WFMin
<1>3. \A y \in I : x <= y
  <2> TAKE y \in I
  <2>1. x \in Nat /\ y \in Nat
    OBVIOUS
  <2>2. ~(y < x)
    <3>1. y < x => <<y, x>> \in R
      BY <2>1 DEF OpToRel
    <3> QED
      BY <1>2, <3>1
  <2> QED
    BY <2>1, <2>2
<1> QED
  BY <1>3 DEF Min

\* A bounded one has a greatest element.
LEMMA GreatestOf ==
    ASSUME NEW n \in Nat, NEW I \in SUBSET (1 .. n), I # {}
    PROVE  Max(I) \in I /\ \A j \in I : j <= Max(I)
<1> DEFINE J == {n - i : i \in I}
<1>1. J \in SUBSET Nat /\ J # {}
  <2>1. PICK i \in I : TRUE
    OBVIOUS
  <2>2. n - i \in J
    BY <2>1
  <2>3. \A k \in I : n - k \in Nat
    OBVIOUS
  <2> QED
    BY <2>2, <2>3
<1>2. PICK j \in J : \A k \in J : j <= k
  BY <1>1, LeastOf
<1>3. PICK i \in I : j = n - i
  BY <1>2
<1>4. \A k \in I : i >= k
  <2> TAKE k \in I
  <2>1. n - i <= n - k
    BY <1>2, <1>3
  <2> QED
    BY <2>1
<1> QED
  BY <1>4 DEF Max

\* A text as it can be written.
TextType == topic \in DOMAIN Alphabet /\ text \in Seq(Alphabet[topic])

\* Texts are written symbol by symbol.
LEMMA TextTyped ==
    /\ ConversionsInit => TextType
    /\ TextType /\ [ConversionsNext]_<<topic, text>> => TextType'
<1>1. ConversionsInit => TextType
  BY DEF ConversionsInit, TextType
<1>2. ASSUME TextType, ConversionsNext
      PROVE  TextType'
  <2>1. PICK c \in Alphabet[topic] : text' = Append(text, c)
    BY <1>2 DEF ConversionsNext
  <2>2. Append(text, c) \in Seq(Alphabet[topic])
    BY <1>2, <2>1 DEF TextType
  <2> QED
    BY <1>2, <2>1, <2>2 DEF TextType, ConversionsNext
<1>3. TextType /\ UNCHANGED <<topic, text>> => TextType'
  BY DEF TextType
<1> QED
  BY <1>1, <1>2, <1>3

-----------------------------------------------------------------------------
(* Access lists *)

\* An accepted access list of any length grants nobody else a dangerous right.
LEMMA AclAlwaysSound ==
    ASSUME TextType
    PROVE  AclSound
<1> SUFFICES ASSUME topic = "acl", NEW owner \in {"system", "users"}, NEW kind,
                    EvaluateAcl(owner, text, kind), NEW right \in DangerousAccess(kind),
                    Granted(owner, text, right)
             PROVE  FALSE
  BY DEF AclSound
<1>1. text \in Seq(Aces)
  BY DEF TextType, Alphabet
<1>2. owner # "users"
  BY DEF EvaluateAcl
<1>3. PICK i \in DOMAIN text : /\ text[i].who = "users" /\ text[i].right = right
                               /\ ~text[i].inheritOnly /\ text[i].type # "deny"
  BY <1>2 DEF Granted
<1>4. text[i] \in Aces /\ text[i] \in ToSet(text)
  BY <1>1, <1>3 DEF ToSet
<1>5. text[i].type \in {"allow", "deny", "compound"}
  BY <1>4 DEF Aces
<1>6. text[i].type # "compound"
  BY <1>4 DEF EvaluateAcl
<1>7. text[i].type = "allow" /\ text[i].who # "system"
  BY <1>3, <1>5, <1>6
<1> QED
  BY <1>3, <1>4, <1>7 DEF EvaluateAcl

-----------------------------------------------------------------------------
(* Absolute paths *)

\* An accepted path of any length names its root.
LEMMA PathsAlwaysAbsolute ==
    ASSUME TextType
    PROVE  PathsAbsolute
<1> SUFFICES ASSUME topic = "path", ValidateAbsolutePath(text)
             PROVE  \E p \in RootedPrefixes : IsPrefix(p, text)
  BY DEF PathsAbsolute
<1>1. text \in Seq(Alphabet["path"])
  BY DEF TextType
<1> DEFINE Sep(i) == i <= Len(text) /\ text[i] \in {"bs", "fs"}
<1>2. CASE Sep(1) /\ Sep(2)
  <2>1. <<text[1], text[2]>> \in RootedPrefixes
    BY <1>2 DEF RootedPrefixes
  <2>2. IsPrefix(<<text[1], text[2]>>, text)
    BY <1>1, <1>2 DEF IsPrefix
  <2> QED
    BY <2>1, <2>2
<1>3. CASE ~(Sep(1) /\ Sep(2))
  <2>1. Len(text) >= 3 /\ text[1] = "letter" /\ text[2] = "colon" /\ Sep(3)
    BY <1>3 DEF ValidateAbsolutePath
  <2>2. <<"letter", "colon", text[3]>> \in RootedPrefixes
    BY <2>1 DEF RootedPrefixes
  <2>3. IsPrefix(<<"letter", "colon", text[3]>>, text)
    BY <1>1, <2>1 DEF IsPrefix
  <2> QED
    BY <2>2, <2>3
<1> QED
  BY <1>2, <1>3

-----------------------------------------------------------------------------
(* Image paths *)

\* The symbols of an image path.
Tokens == Alphabet["image"]

\* The symbols, listed.
LEMMA TokensAre == Tokens = {"sp", "qt", "root", "program files", "dir", "ngsm", "native", "run"}
BY DEF Tokens, Alphabet

\* SubSeq of a sequence, as far as it goes.
LEMMA PartOf ==
    ASSUME NEW S, NEW s \in Seq(S), NEW m \in 1 .. (Len(s) + 1), NEW n \in 0 .. Len(s), m <= n + 1
    PROVE  /\ SubSeq(s, m, n) \in Seq(S)
           /\ Len(SubSeq(s, m, n)) = n - m + 1
           /\ \A i \in 1 .. (n - m + 1) : SubSeq(s, m, n)[i] = s[m + i - 1]
<1>1. \A i \in m .. n : s[i] \in S
  OBVIOUS
<1> QED
  BY <1>1, SubSeqProperties

\* The file name of a path that has one ends where the path ends.
LEMMA BaseNameEnds ==
    ASSUME NEW s \in Seq(Tokens), BaseName(s) = <<"ngsm">>
    PROVE  Len(s) > 0 /\ s[Len(s)] = "ngsm"
<1> DEFINE I == {i \in 1 .. Len(s) : s[i] \in Directories}
           cut == IF I # {} THEN Max(I) ELSE 0
<1>1. BaseName(s) = SubSeq(s, cut + 1, Len(s))
  BY DEF BaseName, SelectLastInSeq
<1>2. cut \in 0 .. Len(s)
  <2>1. I \in SUBSET (1 .. Len(s)) /\ Len(s) \in Nat
    OBVIOUS
  <2>2. I # {} => Max(I) \in 1 .. Len(s)
    <3> HIDE DEF I
    <3> QED
      BY <2>1, GreatestOf
  <2> HIDE DEF I
  <2> QED
    BY <2>1, <2>2
<1>3. /\ Len(SubSeq(s, cut + 1, Len(s))) = Len(s) - cut
      /\ \A i \in 1 .. (Len(s) - cut) : SubSeq(s, cut + 1, Len(s))[i] = s[cut + i]
  <2> HIDE DEF cut
  <2> QED
    BY <1>2, PartOf
<1> HIDE DEF cut
<1>4. Len(s) - cut = 1
  <2>1. Len(<<"ngsm">>) = 1
    OBVIOUS
  <2> QED
    BY <1>1, <1>3, <2>1
<1> QED
  BY <1>1, <1>2, <1>3, <1>4

\* The first symbol that is not a blank is where a trimmed path begins.
LEMMA TrimmedOf ==
    ASSUME NEW s \in Seq(Tokens)
    PROVE  /\ Trimmed(s) \in Seq(Tokens)
           /\ Len(s) > 0 /\ s[1] # "sp" => Trimmed(s) = s
<1> DEFINE I == {i \in 1 .. Len(s) : s[i] # "sp"}
           first == IF I # {} THEN Min(I) ELSE 0
<1>1. Trimmed(s) = IF first = 0 THEN <<>> ELSE SubSeq(s, first, Len(s))
  BY DEF Trimmed, SelectInSeq
<1>2. I # {} => first \in I /\ \A j \in I : first <= j
  <2>1. I \in SUBSET Nat
    OBVIOUS
  <2> HIDE DEF I
  <2> QED
    BY <2>1, LeastOf
<1>3. first = 0 \/ first \in 1 .. Len(s)
  BY <1>2
<1>4. Trimmed(s) \in Seq(Tokens)
  <2> HIDE DEF first
  <2> QED
    BY <1>1, <1>3, PartOf
<1>5. ASSUME Len(s) > 0, s[1] # "sp"
      PROVE  Trimmed(s) = s
  <2>1. 1 \in I
    BY <1>5
  <2>2. first = 1
    BY <1>2, <2>1
  <2> QED
    <3> HIDE DEF first
    <3> QED
      BY <1>1, <2>2, SubSeqFull
<1> QED
  BY <1>4, <1>5

\* The first .exe that white space or the end follows.
LEMMA FirstExeOf ==
    ASSUME NEW s \in Seq(Tokens)
    PROVE  LET Ends(i) == s[i] \in {"ngsm", "native"} /\ (i = Len(s) \/ s[i + 1] = "sp")
           IN  /\ FirstExe(s) = 0 => \A i \in 1 .. Len(s) : ~Ends(i)
               /\ FirstExe(s) # 0 => /\ FirstExe(s) \in 1 .. Len(s) /\ Ends(FirstExe(s))
                                     /\ \A i \in 1 .. (FirstExe(s) - 1) : ~Ends(i)
<1> DEFINE Ends(i) == s[i] \in {"ngsm", "native"} /\ (i = Len(s) \/ s[i + 1] = "sp")
           places == [i \in DOMAIN s |-> i]
           I == {i \in 1 .. Len(places) : Ends(places[i])}
           J == {i \in 1 .. Len(s) : Ends(i)}
<1>1. FirstExe(s) = IF I # {} THEN Min(I) ELSE 0
  BY DEF FirstExe, SelectInSeq
<1>2. Len(places) = Len(s) /\ \A i \in 1 .. Len(s) : places[i] = i
  BY LenProperties
<1>3. I = J
  BY <1>2
<1>4. J # {} => Min(J) \in J /\ \A j \in J : Min(J) <= j
  <2>1. J \in SUBSET Nat
    OBVIOUS
  <2> HIDE DEF J
  <2> QED
    BY <2>1, LeastOf
<1>5. FirstExe(s) = IF J # {} THEN Min(J) ELSE 0
  BY <1>1, <1>3
<1>6. CASE J = {}
  BY <1>5, <1>6
<1>7. CASE J # {}
  <2>1. FirstExe(s) \in J /\ \A j \in J : FirstExe(s) <= j
    BY <1>4, <1>5, <1>7
  <2>2. FirstExe(s) \in 1 .. Len(s) /\ Ends(FirstExe(s))
    BY <2>1
  <2>3. ASSUME NEW i \in 1 .. (FirstExe(s) - 1)
        PROVE  ~Ends(i)
    <3>1. i \in 1 .. Len(s) /\ ~(FirstExe(s) <= i)
      BY <2>2
    <3>2. i \notin J
      BY <2>1, <3>1
    <3> QED
      BY <3>1, <3>2
  <2>4. FirstExe(s) # 0
    BY <2>2
  <2> QED
    BY <2>2, <2>3, <2>4
<1> QED
  BY <1>6, <1>7

\* Where the quote that opens a path is closed.
ClosingQuote(s) ==
    LET I == {i \in 2 .. Len(s) : s[i] = "qt"}
    IN  IF I # {} THEN Min(I) ELSE 0

\* It is the first quote after the one that opens the path.
LEMMA ClosingQuoteOf ==
    ASSUME NEW s \in Seq(Tokens)
    PROVE  /\ ClosingQuote(s) = 0 => \A i \in 2 .. Len(s) : s[i] # "qt"
           /\ ClosingQuote(s) # 0 => /\ ClosingQuote(s) \in 2 .. Len(s)
                                     /\ s[ClosingQuote(s)] = "qt"
                                     /\ \A i \in 2 .. (ClosingQuote(s) - 1) : s[i] # "qt"
<1> DEFINE I == {i \in 2 .. Len(s) : s[i] = "qt"}
<1>1. ClosingQuote(s) = IF I # {} THEN Min(I) ELSE 0
  BY DEF ClosingQuote
<1>2. I # {} => Min(I) \in I /\ \A j \in I : Min(I) <= j
  <2>1. I \in SUBSET Nat
    OBVIOUS
  <2> HIDE DEF I
  <2> QED
    BY <2>1, LeastOf
<1>3. CASE I = {}
  BY <1>1, <1>3
<1>4. CASE I # {}
  <2>1. ClosingQuote(s) \in I /\ \A j \in I : ClosingQuote(s) <= j
    BY <1>1, <1>2, <1>4
  <2>2. ClosingQuote(s) \in 2 .. Len(s) /\ s[ClosingQuote(s)] = "qt"
    BY <2>1
  <2>3. ASSUME NEW i \in 2 .. (ClosingQuote(s) - 1)
        PROVE  s[i] # "qt"
    <3>1. i \in 2 .. Len(s) /\ ~(ClosingQuote(s) <= i)
      BY <2>2
    <3>2. i \notin I
      BY <2>1, <3>1
    <3> QED
      BY <3>1, <3>2
  <2> QED
    BY <2>2, <2>3
<1> QED
  BY <1>3, <1>4

\* A legacy path that is not quoted is read up to its first .exe.
LegacyOK(s) ==
    /\ FirstExe(s) # 0
    /\ LegacyPrefix(SubSeq(s, 1, FirstExe(s)))
    /\ LegacyArguments(Trimmed(SubSeq(s, FirstExe(s) + 1, Len(s))))

\* Which executable an image path names, case by case.
LEMMA ExeNameOf ==
    ASSUME NEW path, NEW s, s = Trimmed(path)
    PROVE  /\ s # <<>> /\ s[1] = "qt" =>
                ImagePathExeName(path) = IF ClosingQuote(s) = 0 THEN Refused
                                         ELSE BaseName(SubSeq(s, 2, ClosingQuote(s) - 1))
           /\ ~(s # <<>> /\ s[1] = "qt") =>
                ImagePathExeName(path) = IF LegacyOK(s) THEN BaseName(SubSeq(s, 1, FirstExe(s)))
                                         ELSE Refused
<1>1. ClosingQuote(s) = SelectInSubSeq(s, 2, Len(s), LAMBDA t : t = "qt")
  BY DEF ClosingQuote, SelectInSubSeq
<1>2. s # <<>> /\ s[1] = "qt" =>
        ImagePathExeName(path) = IF ClosingQuote(s) = 0 THEN Refused
                                 ELSE BaseName(SubSeq(s, 2, ClosingQuote(s) - 1))
  BY <1>1, Zenon DEF ImagePathExeName
<1>3. ASSUME ~(s # <<>> /\ s[1] = "qt"), LegacyOK(s)
      PROVE  ImagePathExeName(path) = BaseName(SubSeq(s, 1, FirstExe(s)))
  BY <1>3, Zenon DEF ImagePathExeName, LegacyOK
<1>4. ASSUME ~(s # <<>> /\ s[1] = "qt"), ~LegacyOK(s)
      PROVE  ImagePathExeName(path) = Refused
  BY <1>4, Zenon DEF ImagePathExeName, LegacyOK
<1> QED
  BY <1>2, <1>3, <1>4

\* What is recognised starts the runner.
LEMMA RecognisedRuns ==
    ASSUME NEW path \in Seq(Tokens), IsManagedImage(path), NEW s, s = Trimmed(path)
    PROVE  IF s[1] = "qt"
           THEN \E i \in 3 .. Len(s) :
                    s[i] = "qt" /\ s[i - 1] = "ngsm" /\ ~Contains(SubSeq(s, 2, i - 1), "qt")
           ELSE s[FirstExe(s)] = "ngsm"
<1>1. s \in Seq(Tokens)
  BY TrimmedOf
<1>2. ImagePathExeName(path) = <<"ngsm">> /\ Refused # <<"ngsm">>
  BY DEF IsManagedImage, Refused
<1>3. CASE s # <<>> /\ s[1] = "qt"
  <2> DEFINE c == ClosingQuote(s)
             inner == SubSeq(s, 2, c - 1)
  <2>1. c # 0 /\ BaseName(inner) = <<"ngsm">>
    BY <1>2, <1>3, ExeNameOf
  <2>2. c \in 2 .. Len(s) /\ s[c] = "qt" /\ \A i \in 2 .. (c - 1) : s[i] # "qt"
    BY <1>1, <2>1, ClosingQuoteOf
  <2> HIDE DEF c
  <2>3. /\ inner \in Seq(Tokens) /\ Len(inner) = c - 2
        /\ \A i \in 1 .. (c - 2) : inner[i] = s[i + 1]
    BY <1>1, <2>2, PartOf
  <2>4. c - 2 > 0 /\ inner[c - 2] = "ngsm"
    BY <2>1, <2>3, BaseNameEnds
  <2>5. s[c - 1] = "ngsm" /\ c \in 3 .. Len(s)
    BY <2>2, <2>3, <2>4
  <2>6. ~Contains(inner, "qt")
    BY <2>2, <2>3 DEF Contains
  <2> QED
    BY <1>3, <2>2, <2>5, <2>6
<1>4. CASE ~(s # <<>> /\ s[1] = "qt")
  <2> DEFINE e == FirstExe(s)
             exe == SubSeq(s, 1, e)
  <2>1. LegacyOK(s) /\ BaseName(exe) = <<"ngsm">>
    BY <1>2, <1>4, ExeNameOf
  <2>2. e \in 1 .. Len(s)
    BY <1>1, <2>1, FirstExeOf DEF LegacyOK
  <2>3. s # <<>>
    BY <1>1, <2>2
  <2> HIDE DEF e
  <2>4. exe \in Seq(Tokens) /\ Len(exe) = e /\ \A i \in 1 .. e : exe[i] = s[i]
    BY <1>1, <2>2, PartOf
  <2>5. exe[e] = "ngsm"
    BY <2>1, <2>4, BaseNameEnds
  <2>6. s[e] = "ngsm"
    BY <2>2, <2>4, <2>5
  <2> QED
    BY <1>4, <2>3, <2>6 DEF e
<1> QED
  BY <1>3, <1>4

\* The elements of two sequences that are joined.
LEMMA JoinOf ==
    ASSUME NEW S, NEW s \in Seq(S), NEW t \in Seq(S)
    PROVE  /\ s \o t \in Seq(S)
           /\ Len(s \o t) = Len(s) + Len(t)
           /\ \A i \in 1 .. Len(s) : (s \o t)[i] = s[i]
           /\ \A i \in 1 .. Len(t) : (s \o t)[Len(s) + i] = t[i]
<1>1. Len(s) \in Nat /\ Len(t) \in Nat
  OBVIOUS
<1>2. /\ s \o t \in Seq(S)
      /\ Len(s \o t) = Len(s) + Len(t)
      /\ \A i \in 1 .. Len(s) + Len(t) :
            (s \o t)[i] = IF i <= Len(s) THEN s[i] ELSE t[i - Len(s)]
  BY ConcatProperties
<1>3. \A i \in 1 .. Len(s) : (s \o t)[i] = s[i]
  BY <1>1, <1>2
<1>4. ASSUME NEW i \in 1 .. Len(t)
      PROVE  (s \o t)[Len(s) + i] = t[i]
  <2>1. /\ Len(s) + i \in 1 .. Len(s) + Len(t)
        /\ ~(Len(s) + i <= Len(s)) /\ (Len(s) + i) - Len(s) = i
    BY <1>1
  <2> QED
    BY <1>2, <2>1
<1> QED
  BY <1>2, <1>3, <1>4

\* The arguments that install writes after the runner are the runner's own.
LEMMA RunnerArgumentsAccepted ==
    LegacyArguments(Trimmed(<<"sp", "run", "sp", "dir">>))
<1> DEFINE s == <<"sp", "run", "sp", "dir">>
           I == {i \in 1 .. Len(s) : s[i] # "sp"}
<1>1. s \in Seq(Tokens) /\ Len(s) = 4
  <2>1. {"sp", "run", "dir"} \subseteq Tokens
    BY TokensAre
  <2> QED
    BY <2>1
<1>2. Trimmed(s) = IF (IF I # {} THEN Min(I) ELSE 0) = 0 THEN <<>>
                   ELSE SubSeq(s, IF I # {} THEN Min(I) ELSE 0, Len(s))
  BY DEF Trimmed, SelectInSeq
<1>3. I = {2, 4}
  BY <1>1
<1>4. Min(I) = 2
  <2>1. I \in SUBSET Nat /\ I # {}
    BY <1>3
  <2>2. Min(I) \in I /\ \A j \in I : Min(I) <= j
    <3> HIDE DEF I
    <3> QED
      BY <2>1, LeastOf
  <2> QED
    BY <1>3, <2>2
<1>5. Trimmed(s) = SubSeq(s, 2, 4)
  <2> HIDE DEF I, s
  <2> QED
    BY <1>1, <1>2, <1>3, <1>4
<1>6. SubSeq(s, 2, 4) = <<"run", "sp", "dir">>
  <2>1. /\ SubSeq(s, 2, 4) \in Seq(Tokens) /\ Len(SubSeq(s, 2, 4)) = 3
        /\ \A i \in 1 .. 3 : SubSeq(s, 2, 4)[i] = s[i + 1]
    <3> HIDE DEF s
    <3>1. /\ SubSeq(s, 2, 4) \in Seq(Tokens) /\ Len(SubSeq(s, 2, 4)) = 4 - 2 + 1
          /\ \A i \in 1 .. (4 - 2 + 1) : SubSeq(s, 2, 4)[i] = s[2 + i - 1]
      <4>1. 2 \in 1 .. (Len(s) + 1) /\ 4 \in 0 .. Len(s) /\ 2 <= 4 + 1
        BY <1>1
      <4> QED
        BY <1>1, <4>1, PartOf, Zenon
    <3> QED
      BY <3>1
  <2>2. <<"run", "sp", "dir">> \in Seq(Tokens) /\ Len(<<"run", "sp", "dir">>) = 3
    <3>1. {"sp", "run", "dir"} \subseteq Tokens
      BY TokensAre
    <3> QED
      BY <3>1
  <2>3. \A i \in 1 .. 3 : s[i + 1] = <<"run", "sp", "dir">>[i]
    OBVIOUS
  <2> QED
    BY <2>1, <2>2, <2>3, SeqEqual
<1>7. IsPrefix(<<"run", "sp">>, <<"run", "sp", "dir">>)
  BY DEF IsPrefix
<1> QED
  BY <1>5, <1>6, <1>7 DEF LegacyArguments

\* What install writes is recognised: quoted when the path has white space, and
\* otherwise read up to its only .exe.
LEMMA InstalledRecognised ==
    ASSUME NEW exe \in Seq(Tokens), ~Contains(exe, "qt"), BaseName(exe) = <<"ngsm">>
    PROVE  IsManagedImage(RunnerCommand(exe))
<1> DEFINE n == Len(exe)
<1>1. n \in Nat /\ n > 0 /\ exe[n] = "ngsm"
  BY BaseNameEnds
<1>0. PICK args : args = <<"sp", "run", "sp", "dir">>
  OBVIOUS
<1>2. args \in Seq(Tokens) /\ Len(args) = 4 /\ args[1] = "sp"
  <2>1. {"sp", "run", "dir"} \subseteq Tokens
    BY TokensAre
  <2> QED
    BY <1>0, <2>1
<1>3. \A i \in 1 .. n : exe[i] # "qt"
  BY DEF Contains
<1>4. CASE HasWhite(exe)
  <2> DEFINE quoted == <<"qt">> \o exe \o <<"qt">>
             c == quoted \o args
  <2>1. RunnerCommand(exe) = c
    BY <1>0, <1>4 DEF RunnerCommand
  <2>2. <<"qt">> \in Seq(Tokens) /\ Len(<<"qt">>) = 1 /\ <<"qt">>[1] = "qt"
    <3>1. "qt" \in Tokens
      BY TokensAre
    <3> QED
      BY <3>1
  <2> HIDE DEF c
  <2>3. /\ quoted \in Seq(Tokens) /\ Len(quoted) = n + 2 /\ quoted[1] = "qt" /\ quoted[n + 2] = "qt"
        /\ \A i \in 1 .. n : quoted[i + 1] = exe[i]
    <3> DEFINE q == <<"qt">>
               h == q \o exe
    <3>1. q \in Seq(Tokens) /\ Len(q) = 1 /\ q[1] = "qt"
      BY <2>2
    <3> HIDE DEF q
    <3>2. /\ h \in Seq(Tokens) /\ Len(h) = n + 1 /\ h[1] = "qt"
          /\ \A i \in 1 .. n : h[i + 1] = exe[i]
      <4>1. /\ h \in Seq(Tokens) /\ Len(h) = 1 + n /\ h[1] = q[1]
            /\ \A i \in 1 .. n : h[1 + i] = exe[i]
        BY <3>1, JoinOf
      <4> QED
        BY <1>1, <3>1, <4>1
    <3> HIDE DEF h
    <3>3. /\ h \o q \in Seq(Tokens) /\ Len(h \o q) = n + 2
          /\ \A i \in 1 .. (n + 1) : (h \o q)[i] = h[i]
          /\ (h \o q)[n + 2] = "qt"
      BY <1>1, <3>1, <3>2, ConcatProperties
    <3>4. /\ (h \o q)[1] = "qt"
          /\ \A i \in 1 .. n : (h \o q)[i + 1] = exe[i]
      BY <1>1, <3>2, <3>3
    <3> QED
      BY <3>3, <3>4 DEF h, q
  <2> HIDE DEF quoted
  <2>4. /\ c \in Seq(Tokens) /\ Len(c) = n + 6
        /\ \A i \in 1 .. (n + 2) : c[i] = quoted[i]
    <3>1. /\ c \in Seq(Tokens) /\ Len(c) = Len(quoted) + Len(args)
          /\ \A i \in 1 .. Len(quoted) : c[i] = quoted[i]
      <4>1. args \in Seq(Tokens) /\ quoted \in Seq(Tokens)
        BY <1>2, <2>3
      <4> QED
        BY <4>1, JoinOf DEF c
    <3> QED
      BY <1>1, <1>2, <2>3, <3>1
  <2>5. /\ c[1] = "qt" /\ c[n + 2] = "qt"
        /\ \A i \in 1 .. n : c[i + 1] = exe[i]
    BY <1>1, <2>3, <2>4
  <2>6. Trimmed(c) = c /\ c # <<>>
    <3>1. Len(c) > 0 /\ c[1] # "sp"
      BY <1>1, <2>4, <2>5
    <3> QED
      BY <2>4, <3>1, TrimmedOf
  <2>7. \A i \in 2 .. (n + 1) : c[i] # "qt"
    <3> TAKE i \in 2 .. (n + 1)
    <3>1. i - 1 \in 1 .. n /\ i = (i - 1) + 1
      BY <1>1
    <3>2. c[i] = exe[i - 1]
      BY <2>5, <3>1
    <3> QED
      BY <1>3, <3>1, <3>2
  <2>8. ClosingQuote(c) = n + 2
    <3>1. ClosingQuote(c) # 0
      BY <1>1, <2>4, <2>5, ClosingQuoteOf
    <3>2. /\ ClosingQuote(c) \in 2 .. Len(c) /\ c[ClosingQuote(c)] = "qt"
          /\ \A i \in 2 .. (ClosingQuote(c) - 1) : c[i] # "qt"
      BY <2>4, <3>1, ClosingQuoteOf
    <3>3. ~(ClosingQuote(c) < n + 2)
      BY <1>1, <2>7, <3>2
    <3>4. ~(n + 2 < ClosingQuote(c))
      BY <1>1, <2>5, <3>2
    <3> QED
      BY <1>1, <3>2, <3>3, <3>4
  <2>9. SubSeq(c, 2, n + 1) = exe
    <3>1. /\ SubSeq(c, 2, n + 1) \in Seq(Tokens) /\ Len(SubSeq(c, 2, n + 1)) = n
          /\ \A i \in 1 .. n : SubSeq(c, 2, n + 1)[i] = c[i + 1]
      BY <1>1, <2>4, PartOf
    <3>2. \A i \in 1 .. n : SubSeq(c, 2, n + 1)[i] = exe[i]
      BY <2>5, <3>1
    <3> QED
      BY <3>1, <3>2, SeqEqual
  <2>10. ImagePathExeName(c) = BaseName(SubSeq(c, 2, n + 1))
    <3>1. ImagePathExeName(c) = BaseName(SubSeq(c, 2, ClosingQuote(c) - 1))
      BY <1>1, <2>5, <2>6, <2>8, ExeNameOf
    <3>2. ClosingQuote(c) - 1 = n + 1
      BY <1>1, <2>8
    <3> QED
      BY <3>1, <3>2
  <2> QED
    BY <2>1, <2>9, <2>10 DEF IsManagedImage
<1>5. CASE ~HasWhite(exe)
  <2> DEFINE c == exe \o args
  <2>1. RunnerCommand(exe) = c
    BY <1>0, <1>5 DEF RunnerCommand
  <2>2. /\ c \in Seq(Tokens) /\ Len(c) = n + 4
        /\ \A i \in 1 .. n : c[i] = exe[i]
        /\ \A i \in 1 .. 4 : c[n + i] = args[i]
    <3>1. /\ c \in Seq(Tokens) /\ Len(c) = Len(exe) + Len(args)
          /\ \A i \in 1 .. Len(exe) : c[i] = exe[i]
          /\ \A i \in 1 .. Len(args) : c[Len(exe) + i] = args[i]
      <4>1. args \in Seq(Tokens)
        BY <1>2
      <4> QED
        BY <4>1, JoinOf
    <3> HIDE DEF c
    <3> QED
      BY <1>2, <3>1
  <2> HIDE DEF c
  <2>3. \A i \in 1 .. n : exe[i] # "sp"
    <3>1. \A i \in 1 .. n : exe[i] \in ToSet(exe)
      BY DEF ToSet
    <3>2. "sp" \notin ToSet(exe)
      BY <1>5 DEF HasWhite
    <3> QED
      BY <3>1, <3>2
  <2>4. c[1] # "qt" /\ c[1] # "sp" /\ c # <<>>
    BY <1>1, <1>3, <2>2, <2>3
  <2>5. Trimmed(c) = c
    <3>1. Len(c) > 0
      BY <1>1, <2>2
    <3> QED
      BY <2>2, <2>4, <3>1, TrimmedOf
  <2>6. FirstExe(c) = n
    <3> DEFINE Ends(i) == c[i] \in {"ngsm", "native"} /\ (i = Len(c) \/ c[i + 1] = "sp")
    <3>1. Ends(n)
      <4>1. c[n] = "ngsm" /\ c[n + 1] = "sp"
        BY <1>1, <1>2, <2>2
      <4> QED
        BY <4>1
    <3>2. \A i \in 1 .. (n - 1) : ~Ends(i)
      <4> TAKE i \in 1 .. (n - 1)
      <4>1. i \in 1 .. n /\ i + 1 \in 1 .. n /\ i # Len(c)
        BY <1>1, <2>2
      <4>2. c[i + 1] # "sp"
        BY <2>2, <2>3, <4>1
      <4> QED
        BY <4>1, <4>2
    <3>3. FirstExe(c) # 0
      BY <1>1, <2>2, <3>1, FirstExeOf
    <3>4. /\ FirstExe(c) \in 1 .. Len(c) /\ Ends(FirstExe(c))
          /\ \A i \in 1 .. (FirstExe(c) - 1) : ~Ends(i)
      BY <2>2, <3>3, FirstExeOf
    <3> HIDE DEF Ends
    <3> QED
      BY <1>1, <2>2, <3>1, <3>2, <3>4
  <2>7. SubSeq(c, 1, n) = exe
    <3>1. /\ SubSeq(c, 1, n) \in Seq(Tokens) /\ Len(SubSeq(c, 1, n)) = n
          /\ \A i \in 1 .. n : SubSeq(c, 1, n)[i] = c[i]
      BY <1>1, <2>2, PartOf
    <3>2. \A i \in 1 .. n : SubSeq(c, 1, n)[i] = exe[i]
      BY <2>2, <3>1
    <3> QED
      BY <3>1, <3>2, SeqEqual
  <2>8. SubSeq(c, n + 1, Len(c)) = args
    <3> DEFINE rest == SubSeq(c, n + 1, n + 4)
    <3>1. /\ rest \in Seq(Tokens) /\ Len(rest) = 4
          /\ \A i \in 1 .. 4 : rest[i] = c[n + i]
      BY <1>1, <2>2, PartOf
    <3>2. \A i \in 1 .. 4 : rest[i] = args[i]
      BY <2>2, <3>1
    <3> HIDE DEF rest
    <3>3. rest = args
      BY <1>2, <3>1, <3>2, SeqEqual
    <3> QED
      BY <2>2, <3>3 DEF rest
  <2>9. LegacyOK(c)
    <3>1. FirstExe(c) # 0
      BY <1>1, <2>6
    <3>2. LegacyPrefix(SubSeq(c, 1, FirstExe(c)))
      BY <1>5, <2>6, <2>7 DEF LegacyPrefix
    <3>3. LegacyArguments(Trimmed(args))
      BY <1>0, RunnerArgumentsAccepted
    <3> QED
      BY <2>6, <2>8, <3>1, <3>2, <3>3 DEF LegacyOK
  <2>10. ImagePathExeName(c) = BaseName(exe)
    BY <2>4, <2>5, <2>6, <2>7, <2>9, ExeNameOf
  <2> QED
    BY <2>1, <2>10 DEF IsManagedImage
<1> QED
  BY <1>4, <1>5

\* Image paths of any length: what install writes is recognised, and what is recognised
\* starts the runner.
LEMMA ImageAlwaysExact ==
    ASSUME TextType
    PROVE  ImageExact
<1> SUFFICES ASSUME topic = "image"
             PROVE  /\ ~Contains(text, "qt") /\ text # <<>> /\ Last(text) = "ngsm"
                          /\ BaseName(text) = <<"ngsm">> => IsManagedImage(RunnerCommand(text))
                    /\ IsManagedImage(text) =>
                          LET s == Trimmed(text)
                          IN  IF s[1] = "qt" THEN \E i \in 3 .. Len(s) :
                                  s[i] = "qt" /\ s[i - 1] = "ngsm" /\ ~Contains(SubSeq(s, 2, i - 1), "qt")
                              ELSE s[FirstExe(s)] = "ngsm"
  BY DEF ImageExact
<1>1. text \in Seq(Tokens)
  BY DEF TextType, Tokens
<1>2. ~Contains(text, "qt") /\ BaseName(text) = <<"ngsm">> => IsManagedImage(RunnerCommand(text))
  BY <1>1, InstalledRecognised
<1>3. IsManagedImage(text) =>
        LET s == Trimmed(text)
        IN  IF s[1] = "qt" THEN \E i \in 3 .. Len(s) :
                s[i] = "qt" /\ s[i - 1] = "ngsm" /\ ~Contains(SubSeq(s, 2, i - 1), "qt")
            ELSE s[FirstExe(s)] = "ngsm"
  BY <1>1, RecognisedRuns
<1> QED
  BY <1>2, <1>3

-----------------------------------------------------------------------------
(* Registry strings *)

\* The first NUL of some words.
FirstNul(w) ==
    LET I == {i \in 1 .. Len(w) : w[i] = "nul"}
    IN  IF I # {} THEN Min(I) ELSE 0

\* The indices of its NULs.
Nuls(w) == {i \in DOMAIN w : w[i] = "nul"}

\* It is the least index of a NUL.
LEMMA FirstNulOf ==
    ASSUME NEW S, NEW w \in Seq(S), Nuls(w) # {}
    PROVE  FirstNul(w) \in Nuls(w) /\ \A j \in Nuls(w) : FirstNul(w) <= j
<1> DEFINE I == {i \in 1 .. Len(w) : w[i] = "nul"}
<1>1. I = Nuls(w) /\ I \in SUBSET Nat
  BY DEF Nuls
<1>2. FirstNul(w) = Min(I)
  BY <1>1 DEF FirstNul
<1>3. Min(I) \in I /\ \A j \in I : Min(I) <= j
  <2> HIDE DEF I
  <2> QED
    BY <1>1, LeastOf
<1> QED
  BY <1>1, <1>2, <1>3

\* What is read back from some words, case by case.
LEMMA WideStringOf ==
    ASSUME NEW w
    PROVE  /\ Nuls(w) = {} => BytesToWideString(w) = w
           /\ Nuls(w) # {} => BytesToWideString(w) =
                IF Nuls(w) = FirstNul(w) .. Len(w) THEN SubSeq(w, 1, FirstNul(w) - 1) ELSE Refused
<1>1. FirstNul(w) = SelectInSeq(w, LAMBDA c : c = "nul")
  BY DEF FirstNul, SelectInSeq
<1>2. Nuls(w) = {} => BytesToWideString(w) = w
  BY Zenon DEF BytesToWideString, Nuls
<1>3. ASSUME Nuls(w) # {}, Nuls(w) = FirstNul(w) .. Len(w)
      PROVE  BytesToWideString(w) = SubSeq(w, 1, FirstNul(w) - 1)
  BY <1>1, <1>3, Zenon DEF BytesToWideString, Nuls
<1>4. ASSUME Nuls(w) # {}, Nuls(w) # FirstNul(w) .. Len(w)
      PROVE  BytesToWideString(w) = Refused
  BY <1>1, <1>4, Zenon DEF BytesToWideString, Nuls
<1> QED
  BY <1>2, <1>3, <1>4

\* A string that is written is read back.
LEMMA WrittenStringRead ==
    ASSUME NEW S, NEW v \in Seq(S), ~Contains(v, "nul")
    PROVE  BytesToWideString(EncodeString(v)) = v
<1> DEFINE w == Append(v, "nul")
           n == Len(v)
<1>1. EncodeString(v) = w
  BY DEF EncodeString
<1>2. n \in Nat /\ \A i \in 1 .. n : v[i] # "nul"
  BY DEF Contains
<1>3. v \in Seq(S \cup {"nul"})
  BY SeqMonotonic
<1>4. /\ w \in Seq(S \cup {"nul"}) /\ Len(w) = n + 1
      /\ \A i \in 1 .. n : w[i] = v[i]
      /\ w[n + 1] = "nul"
  BY <1>3, AppendProperties
<1> HIDE DEF w
<1>5. Nuls(w) = {n + 1}
  <2>1. DOMAIN w = 1 .. (n + 1)
    BY <1>4, LenProperties
  <2>2. \A i \in 1 .. (n + 1) : w[i] = "nul" <=> i = n + 1
    BY <1>2, <1>4
  <2> QED
    BY <1>2, <2>1, <2>2 DEF Nuls
<1>6. FirstNul(w) = n + 1
  <2>1. FirstNul(w) \in Nuls(w)
    BY <1>4, <1>5, FirstNulOf
  <2> QED
    BY <1>5, <2>1
<1>7. Nuls(w) = FirstNul(w) .. Len(w)
  BY <1>2, <1>4, <1>5, <1>6
<1>8. BytesToWideString(w) = SubSeq(w, 1, n)
  <2>1. FirstNul(w) - 1 = n
    BY <1>2, <1>6
  <2> QED
    BY <1>5, <1>7, <2>1, WideStringOf
<1>9. SubSeq(w, 1, n) = v
  <2>1. /\ SubSeq(w, 1, n) \in Seq(S \cup {"nul"}) /\ Len(SubSeq(w, 1, n)) = n - 1 + 1
        /\ \A i \in 1 .. (n - 1 + 1) : SubSeq(w, 1, n)[i] = w[1 + i - 1]
    BY <1>2, <1>4, PartOf
  <2>2. Len(SubSeq(w, 1, n)) = n /\ \A i \in 1 .. n : SubSeq(w, 1, n)[i] = v[i]
    BY <1>2, <1>4, <2>1
  <2> QED
    BY <1>3, <2>1, <2>2, SeqEqual
<1> QED
  BY <1>1, <1>8, <1>9

\* What is read of any words is all of them up to padding.
LEMMA ReadStringWhole ==
    ASSUME NEW S, NEW w \in Seq(S), NEW s, s = BytesToWideString(w), s # Refused
    PROVE  IsPrefix(s, w) /\ ToSet(SubSeq(w, Len(s) + 1, Len(w))) \subseteq {"nul"}
<1> DEFINE n == Len(w)
<1>1. n \in Nat /\ DOMAIN w = 1 .. n
  OBVIOUS
<1>2. CASE Nuls(w) = {}
  <2>1. s = w
    BY <1>2, WideStringOf
  <2>2. IsPrefix(w, w)
    BY DEF IsPrefix
  <2>3. ToSet(SubSeq(w, n + 1, n)) = {}
    <3>1. SubSeq(w, n + 1, n) = <<>>
      BY <1>1, SubSeqEmpty
    <3> QED
      BY <3>1 DEF ToSet
  <2> QED
    BY <2>1, <2>2, <2>3
<1>3. CASE Nuls(w) # {}
  <2> DEFINE e == FirstNul(w)
             rest == SubSeq(w, e, n)
  <2>1. e \in 1 .. n
    BY <1>1, <1>3, FirstNulOf DEF Nuls
  <2>2. Nuls(w) = e .. n /\ s = SubSeq(w, 1, e - 1)
    BY <1>3, WideStringOf
  <2> HIDE DEF e
  <2>3. Len(SubSeq(w, 1, e - 1)) = e - 1
    <3>1. Len(SubSeq(w, 1, e - 1)) = (e - 1) - 1 + 1
      BY <1>1, <2>1, PartOf
    <3> QED
      BY <2>1, <3>1
  <2>4. Len(s) = e - 1
    BY <2>2, <2>3
  <2>5. IsPrefix(s, w)
    <3>1. s \in Seq(S)
      BY <1>1, <2>1, <2>2, PartOf
    <3>2. SubSeq(s, 1, Len(s)) = s
      BY <3>1, SubSeqFull
    <3> QED
      BY <1>1, <2>1, <2>2, <2>4, <3>2 DEF IsPrefix
  <2>6. /\ rest \in Seq(S) /\ Len(rest) = n - e + 1
        /\ \A i \in 1 .. (n - e + 1) : rest[i] = w[e + i - 1]
    BY <1>1, <2>1, PartOf
  <2>7. \A i \in DOMAIN rest : rest[i] = "nul"
    <3> TAKE i \in DOMAIN rest
    <3>1. i \in 1 .. (n - e + 1)
      BY <2>6, LenProperties
    <3>2. e + i - 1 \in Nuls(w)
      BY <1>1, <2>1, <2>2, <3>1
    <3> QED
      BY <2>6, <3>1, <3>2 DEF Nuls
  <2>8. ToSet(rest) \subseteq {"nul"}
    BY <2>7 DEF ToSet
  <2>9. Len(s) + 1 = e
    BY <2>1, <2>4
  <2> QED
    BY <2>5, <2>8, <2>9
<1> QED
  BY <1>2, <1>3

-----------------------------------------------------------------------------

\* THEOREM: for texts and access lists of any length, an accepted path names its root,
\* the image path that install writes is recognised and what is recognised starts the
\* runner, and a location that is accepted gives nobody but administrators a right to
\* replace it (validate_absolute_path, image_path_exe_name, evaluate_acl_decision).
THEOREM ConversionsAlwaysExact ==
    ConversionsInit /\ [][ConversionsNext]_<<topic, text>>
        => [](PathsAbsolute /\ ImageExact /\ AclSound)
<1>1. TextType => PathsAbsolute /\ ImageExact /\ AclSound
  BY PathsAlwaysAbsolute, ImageAlwaysExact, AclAlwaysSound
<1> QED
  BY <1>1, TextTyped, PTL

\* THEOREM: a registry string without a NUL is read back as it was written, and what is
\* read of any words is all of them but NULs at the end (write_string_typed,
\* bytes_to_wide_string).
THEOREM StringsAlwaysExact ==
    ASSUME NEW S, NEW words \in Seq(S)
    PROVE  /\ ~Contains(words, "nul") => BytesToWideString(EncodeString(words)) = words
           /\ LET s == BytesToWideString(words)
              IN  s # Refused =>
                    /\ IsPrefix(s, words)
                    /\ ToSet(SubSeq(words, Len(s) + 1, Len(words))) \subseteq {"nul"}
BY WrittenStringRead, ReadStringWhole
=============================================================================
