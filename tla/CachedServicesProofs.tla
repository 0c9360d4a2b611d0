------------------------ MODULE CachedServicesProofs ------------------------
(***************************************************************************)
(* Proofs about CachedServices and ServedAlone, for every number of        *)
(* concurrent requests and every choice of the services considered.        *)
(***************************************************************************)
EXTENDS ServedAlone, RecursionFacts

-----------------------------------------------------------------------------
(* Type correctness.                                                       *)

ResumeOK(w) ==
    /\ held[w] \in Copy
    /\ standing[w] \in {"alone", "changed", "disturbed"}
    /\ IF method[w] = Idle
          THEN <<rest[w], held[w], standing[w]>> = <<<<>>, NoCopy, "alone">>
          ELSE method[w] \in DOMAIN Methods

Entries == [subject.keys -> {{}} \cup {{copy} : copy \in Copy}]

\* The workers' variables are functions: only these can be changed at one worker.
Functions4 ==
    /\ method = [w \in Workers |-> method[w]]
    /\ rest = [w \in Workers |-> rest[w]]
    /\ held = [w \in Workers |-> held[w]]
    /\ standing = [w \in Workers |-> standing[w]]

TypeInv == TypeOK /\ Functions4

LEMMA AgedIsCopy == \A copy \in Copy : Aged(copy) \in Copy
  BY DEF Aged, Copy

LEMMA NoCopyIsCopy == NoCopy \in Copy
  BY DEF NoCopy, Copy

LEMMA AgedNoCopy == Aged(NoCopy) = NoCopy
<1>1. NoCopy \in Copy /\ Aged(NoCopy) \in Copy
  BY NoCopyIsCopy, AgedIsCopy
<1>2. /\ Aged(NoCopy).found = NoCopy.found /\ Aged(NoCopy).full = NoCopy.full
      /\ Aged(NoCopy).current = NoCopy.current
  BY DEF Aged, NoCopy
<1> QED BY <1>1, <1>2 DEF Copy

LEMMA InitType == Init => TypeInv
  BY NoCopyIsCopy DEF Init, TypeInv, TypeOK, Functions4

\* A request begins with a method of the service.
LEMMA BeginType ==
    ASSUME TypeInv, NEW w \in Workers, Begin(w)
    PROVE  TypeInv'
<1>1. PICK m \in Relevant[subject] :
         /\ method' = [method EXCEPT ![w] = m]
         /\ rest' = [rest EXCEPT ![w] = Due(subject.keys, Methods[m].steps)]
  BY DEF Begin
<1>2. method[w] = Idle /\ UNCHANGED <<subject, row, entry, held, standing>>
  BY DEF Begin
<1>3. m \in DOMAIN Methods
  BY DEF TypeInv, TypeOK, Relevant, Methods
<1>4. m # Idle
  <2>1. subject.service \in Watched
    BY DEF TypeInv, TypeOK, Subjects
  <2> QED BY <1>3, <2>1, ServicesAssumption DEF Methods
<1>5. Methods' = Methods
  BY <1>2 DEF Methods
<1>6. Functions4'
  BY <1>1, <1>2 DEF TypeInv, Functions4
<1>7. \A v \in Workers : method'[v] = IF v = w THEN m ELSE method[v]
  BY <1>1 DEF TypeInv, Functions4
<1>8. \A v \in Workers : v # w => rest'[v] = rest[v]
  BY <1>1 DEF TypeInv, Functions4
<1> QED BY <1>2, <1>3, <1>4, <1>5, <1>6, <1>7, <1>8 DEF TypeInv, TypeOK

\* A step of one worker: what the others have to do stays, and what they hold grows old at
\* most.
Kept(v) ==
    /\ method'[v] = method[v] /\ rest'[v] = rest[v]
    /\ held'[v] \in {held[v], Aged(held[v])}
    /\ \/ standing'[v] = standing[v]
       \/ method[v] # Idle /\ standing'[v] = "disturbed"

LEMMA StepType ==
    ASSUME TypeInv, NEW w \in Workers, UNCHANGED subject,
           row' \in {"absent", "there", "hidden"}, entry' \in Entries, Functions4',
           \A v \in Workers \ {w} : Kept(v), ResumeOK(w)'
    PROVE  TypeInv'
<1>1. ASSUME NEW v \in Workers \ {w} PROVE ResumeOK(v)'
  <2>1. ResumeOK(v)
    BY DEF TypeInv, TypeOK, ResumeOK
  <2>2. Aged(NoCopy) = NoCopy
    BY AgedNoCopy
  <2>3. Kept(v)
    OBVIOUS
  <2>4. held'[v] \in Copy
    BY <2>1, <2>3, AgedIsCopy DEF ResumeOK, Kept
  <2>5. standing'[v] \in {"alone", "changed", "disturbed"}
    BY <2>1, <2>3 DEF ResumeOK, Kept
  <2>6. CASE method[v] = Idle
    BY <2>1, <2>2, <2>3, <2>4, <2>5, <2>6 DEF ResumeOK, Kept
  <2>7. CASE method[v] # Idle
    BY <2>1, <2>3, <2>4, <2>5, <2>7 DEF ResumeOK, Kept, Methods
  <2> QED BY <2>6, <2>7
<1>2. \A v \in Workers : ResumeOK(v)'
  BY <1>1
<1> QED BY <1>2 DEF TypeInv, TypeOK, ResumeOK, Entries

\* A worker with steps to take serves a method.
LEMMA Busy ==
    ASSUME TypeInv, NEW w \in Workers, rest[w] # <<>>
    PROVE  method[w] # Idle /\ method[w] \in DOMAIN Methods
  BY DEF TypeInv, TypeOK

LEMMA EndType ==
    ASSUME TypeInv, NEW w \in Workers, End(w)
    PROVE  TypeInv'
<1>1. /\ method' = [method EXCEPT ![w] = Idle] /\ rest' = [rest EXCEPT ![w] = <<>>]
      /\ held' = [held EXCEPT ![w] = NoCopy] /\ standing' = [standing EXCEPT ![w] = "alone"]
      /\ UNCHANGED <<subject, row, entry>>
  BY DEF End, Hold
<1>2. Functions4'
  BY <1>1 DEF TypeInv, Functions4
<1>3. \A v \in Workers \ {w} : Kept(v)
  BY <1>1 DEF Kept, TypeInv, Functions4
<1>4. ResumeOK(w)'
  BY <1>1, NoCopyIsCopy DEF ResumeOK, TypeInv, Functions4
<1> QED BY <1>1, <1>2, <1>3, <1>4, StepType DEF TypeInv, TypeOK, Entries

\* Steps that leave row, entries and standings alone, and may change what w holds.
LEMMA LocalType ==
    ASSUME TypeInv, NEW w \in Workers, rest[w] # <<>>, NEW steps, NEW copy \in Copy,
           rest' = [rest EXCEPT ![w] = steps], held' = [held EXCEPT ![w] = copy],
           UNCHANGED <<subject, row, entry, method, standing>>
    PROVE  TypeInv'
<1>1. Functions4'
  BY DEF TypeInv, Functions4
<1>2. \A v \in Workers \ {w} : Kept(v)
  BY DEF Kept, TypeInv, Functions4
<1>3. ResumeOK(w)'
  BY Busy DEF ResumeOK, TypeInv, TypeOK, Functions4, Methods
<1> QED BY <1>1, <1>2, <1>3, StepType DEF TypeInv, TypeOK, Entries

LEMMA SameHeld ==
    ASSUME TypeInv, NEW w \in Workers
    PROVE  held[w] \in Copy /\ held = [held EXCEPT ![w] = held[w]]
  BY DEF TypeInv, TypeOK, Functions4

\* Statements: the row changes, or nothing does.
LEMMA StatementType ==
    ASSUME TypeInv, NEW w \in Workers, rest[w] # <<>>,
           NEW newRow \in {"absent", "there", "hidden"}, NEW copy \in Copy,
           Alter(w, newRow, copy) \/ Matches(w),
           GoOn(w), UNCHANGED <<subject, method>>
    PROVE  TypeInv'
<1>1. method[w] # Idle /\ rest' = [rest EXCEPT ![w] = Tail(@)]
  BY Busy DEF GoOn
<1>2. CASE Matches(w)
  <2>1. UNCHANGED <<subject, row, entry, method, standing, held>>
    BY <1>2 DEF Matches
  <2> QED BY <1>1, <2>1, SameHeld, LocalType
<1>3. CASE Alter(w, newRow, copy)
  <2>1. /\ row' = newRow
        /\ entry' = [key \in subject.keys |-> {Aged(stored) : stored \in entry[key]}]
        /\ held' = [v \in Workers |-> IF v = w THEN copy ELSE Aged(held[v])]
        /\ standing' = [Joined(w) EXCEPT ![w] = IF @ = "alone" THEN "changed" ELSE @]
    BY <1>3 DEF Alter
  <2>2. entry' \in Entries
    <3>1. ASSUME NEW key \in subject.keys
          PROVE  {Aged(stored) : stored \in entry[key]} \in {{}} \cup {{c} : c \in Copy}
      <4>1. entry[key] \in {{}} \cup {{c} : c \in Copy}
        BY DEF TypeInv, TypeOK
      <4>2. CASE entry[key] = {}
        BY <4>2
      <4>3. ASSUME NEW c \in Copy, entry[key] = {c}
            PROVE  {Aged(stored) : stored \in entry[key]} \in {{}} \cup {{d} : d \in Copy}
        <5>1. {Aged(stored) : stored \in entry[key]} = {Aged(c)}
          BY <4>3
        <5> QED BY <5>1, AgedIsCopy
      <4> QED BY <4>1, <4>2, <4>3
    <3> QED BY <2>1, <3>1 DEF Entries
  <2>3. \A v \in Workers : standing'[v] = IF v = w
                             THEN IF standing[w] = "alone" THEN "changed" ELSE standing[w]
                             ELSE IF Writing(v) THEN "disturbed" ELSE standing[v]
    BY <2>1 DEF Joined
  <2>4. Functions4'
    <3>1. standing' = [v \in Workers |-> standing'[v]]
      BY <2>1 DEF Joined
    <3> QED BY <1>1, <2>1, <3>1 DEF TypeInv, Functions4
  <2>5. \A v \in Workers \ {w} : Kept(v)
    BY <1>1, <2>1, <2>3 DEF Kept, Writing, TypeInv, Functions4
  <2>6. ResumeOK(w)'
    <3>1. method'[w] # Idle /\ method'[w] \in DOMAIN Methods'
      BY Busy DEF Methods
    <3>2. held'[w] \in Copy
      BY <2>1
    <3>3. standing'[w] \in {"alone", "changed", "disturbed"}
      BY <2>3 DEF TypeInv, TypeOK
    <3> QED BY <3>1, <3>2, <3>3 DEF ResumeOK
  <2> QED BY <2>1, <2>2, <2>4, <2>5, <2>6, StepType
<1> QED BY <1>2, <1>3

\* Redis commands: an entry is set, or the command refused.
LEMMA CommandType ==
    ASSUME TypeInv, NEW w \in Workers, rest[w] # <<>>,
           NEW copies \in {{}} \cup {{copy} : copy \in Copy},
           Put(w, copies) \/ Refused(w),
           GoOn(w), UNCHANGED <<subject, row, method, held>>
    PROVE  TypeInv'
<1>1. method[w] # Idle /\ rest' = [rest EXCEPT ![w] = Tail(@)]
  BY Busy DEF GoOn
<1>2. entry' \in Entries
  BY DEF Put, Refused, TypeInv, TypeOK, Entries
<1>3. /\ standing' = [v \in Workers |-> standing'[v]]
      /\ \A v \in Workers : \/ standing'[v] = standing[v]
                            \/ method[v] # Idle /\ standing'[v] = "disturbed"
  <2>1. standing' = standing \/ standing' = Joined(w)
           \/ standing' = [standing EXCEPT ![w] = IF Writing(w) THEN "disturbed" ELSE @]
    BY DEF Put, Refused
  <2> QED BY <2>1 DEF Joined, Writing, TypeInv, Functions4
<1>4. Functions4'
  BY <1>1, <1>3 DEF TypeInv, Functions4
<1>5. \A v \in Workers \ {w} : Kept(v)
  BY <1>1, <1>3 DEF Kept, TypeInv, Functions4
<1>6. ResumeOK(w)'
  BY <1>1, <1>3, Busy DEF ResumeOK, TypeInv, TypeOK, Methods
<1> QED BY <1>2, <1>4, <1>5, <1>6, StepType DEF TypeInv, TypeOK

LEMMA ExpireType ==
    ASSUME TypeInv, NEW key \in subject.keys, Expire(key)
    PROVE  TypeInv'
<1>1. /\ entry' = [entry EXCEPT ![key] = {}]
      /\ UNCHANGED <<subject, row, method, rest, held, standing>>
  BY DEF Expire
<1>2. entry' \in [subject.keys -> {{}} \cup {{copy} : copy \in Copy}]
  BY <1>1 DEF TypeInv, TypeOK
<1> QED BY <1>1, <1>2 DEF TypeInv, TypeOK, Functions4, Methods

LEMMA AtBusy == \A w : \A do : At(w, do) => rest[w] # <<>>
  BY DEF At

\* Queries, tests and lookups.
LEMMA LookType ==
    ASSUME TypeInv, NEW w \in Workers,
           Query(w) \/ Check(w) \/ Choose(w) \/ TakeNone(w) \/ Lookup(w)
    PROVE  TypeInv'
<1>1. /\ rest[w] # <<>>
      /\ \E steps : rest' = [rest EXCEPT ![w] = steps]
  <2>1. rest[w] # <<>>
    BY AtBusy DEF Query, Check, Choose, TakeNone, Lookup
  <2>2. GoOn(w) \/ Enter(w, This(w).steps)
    BY DEF Query, Check, Choose, TakeNone, Lookup
  <2> QED BY <2>1, <2>2 DEF GoOn, Enter
<1>2. PICK steps : rest' = [rest EXCEPT ![w] = steps]
  BY <1>1
<1>3. UNCHANGED <<subject, row, entry, method, standing>>
  BY DEF Query, Check, Choose, TakeNone, Lookup
<1>4. PICK copy \in Copy : held' = [held EXCEPT ![w] = copy]
  <2>1. CASE held' = held
    BY <2>1, SameHeld
  <2>2. CASE Query(w)
    <3>1. At(w, "find")
      BY <2>2 DEF Query
    <3> DEFINE copy == [found |-> Present, full |-> Present /\ This(w).full,
                        current |-> TRUE]
    <3>2. held' = [held EXCEPT ![w] = copy]
      BY <2>2 DEF Query, Hold
    <3>3. copy \in Copy
      BY DEF Copy, Present
    <3> QED BY <3>2, <3>3
  <2>3. CASE TakeNone(w)
    <3> DEFINE copy == [NoCopy EXCEPT !.current = ~Present]
    <3>1. held' = [held EXCEPT ![w] = copy]
      BY <2>3 DEF TakeNone, Hold
    <3>2. copy \in Copy
      BY NoCopyIsCopy DEF Copy, Present
    <3> HIDE DEF copy
    <3> QED BY <3>1, <3>2
  <2>4. CASE Lookup(w)
    <3>1. CASE held' = held
      BY <3>1, SameHeld
    <3>2. CASE held' # held
      <4>1. PICK copy \in entry[This(w).key] :
               This(w).key \in subject.keys /\ held' = [held EXCEPT ![w] = copy]
        BY <2>4, <3>2 DEF Lookup, Hold
      <4>2. copy \in Copy
        BY <4>1 DEF TypeInv, TypeOK
      <4> QED BY <4>1, <4>2
    <3> QED BY <3>1, <3>2
  <2> QED BY <2>1, <2>2, <2>3, <2>4 DEF Check, Choose
<1> QED BY <1>1, <1>2, <1>3, <1>4, LocalType

LEMMA WriteType ==
    ASSUME TypeInv, NEW w \in Workers,
           \/ InsertRow(w) \/ UpdateRow(w) \/ UpsertRow(w) \/ RemoveRow(w) \/ RestoreRow(w)
    PROVE  TypeInv'
<1>1. rest[w] # <<>>
  BY AtBusy DEF InsertRow, UpdateRow, UpsertRow, RemoveRow, RestoreRow
<1>2. GoOn(w) /\ UNCHANGED <<subject, method>>
  BY DEF InsertRow, UpdateRow, UpsertRow, RemoveRow, RestoreRow
<1>3. Written \in Copy /\ Aged(held[w]) \in Copy
  BY AgedIsCopy, SameHeld DEF Written, Copy
<1>4. \E newRow \in {"absent", "there", "hidden"} : \E copy \in Copy :
         Alter(w, newRow, copy) \/ Matches(w)
  BY <1>3 DEF InsertRow, UpdateRow, UpsertRow, RemoveRow, RestoreRow, Change
<1> QED BY <1>1, <1>2, <1>4, StatementType

LEMMA CacheType ==
    ASSUME TypeInv, NEW w \in Workers, Store(w) \/ Delete(w)
    PROVE  TypeInv'
<1>1. rest[w] # <<>>
  BY AtBusy DEF Store, Delete
<1>2. GoOn(w) /\ UNCHANGED <<subject, row, method, held>>
  BY DEF Store, Delete
<1>3. \E copies \in {{}} \cup {{copy} : copy \in Copy} : Put(w, copies) \/ Refused(w)
  BY SameHeld DEF Store, Delete
<1> QED BY <1>1, <1>2, <1>3, CommandType

LEMMA NextType == TypeInv /\ [Next]_vars => TypeInv'
<1> SUFFICES ASSUME TypeInv, [Next]_vars PROVE TypeInv'
  OBVIOUS
<1>1. CASE UNCHANGED vars
  BY <1>1 DEF vars, TypeInv, TypeOK, Functions4, Methods
<1>2. ASSUME NEW key \in subject.keys, Expire(key) PROVE TypeInv'
  BY <1>2, ExpireType
<1>3. ASSUME NEW w \in Workers, Begin(w) \/ Serve(w) \/ Abandon(w) PROVE TypeInv'
  <2>1. CASE Begin(w)
    BY <2>1, BeginType
  <2>2. CASE Throw(w) \/ Respond(w) \/ Abandon(w)
    BY <2>2, EndType DEF Throw, Respond, Abandon
  <2>3. CASE Query(w) \/ Check(w) \/ Choose(w) \/ TakeNone(w) \/ Lookup(w)
    BY <2>3, LookType
  <2>4. CASE \/ InsertRow(w) \/ UpdateRow(w) \/ UpsertRow(w) \/ RemoveRow(w)
             \/ RestoreRow(w)
    BY <2>4, WriteType
  <2>5. CASE Store(w) \/ Delete(w)
    BY <2>5, CacheType
  <2> QED BY <1>3, <2>1, <2>2, <2>3, <2>4, <2>5 DEF Serve
<1> QED BY <1>1, <1>2, <1>3 DEF Next

\* Every variable keeps its type and a worker at rest holds nothing, for any services and
\* any number of requests served at a time: what a request leaves behind when it ends,
\* throws or is abandoned is never found by the next.
THEOREM TypeCorrect == Spec => []TypeOK
<1>1. TypeInv => TypeOK
  BY DEF TypeInv
<1> QED BY <1>1, InitType, NextType, PTL DEF Spec

-----------------------------------------------------------------------------
(* What a method may do to the row.  Steps are Formed if they are          *)
(* sequences, the nested ones too; Calm if moreover none makes a row; they *)
(* Raise one by a step of theirs or of a branch.                           *)

Nesting == {"ifThere", "ifFound", "ifAbsent", "maybe", "lookup"}
Raising == {"insert", "upsert", "restore"}
Stirring == Raising \cup {"saveRow"}

Closed(G) == \A t \in G : t.do \in Nesting => t.steps \in Seq(G)
Formed(steps) == \E G : Closed(G) /\ steps \in Seq(G)
Calm(steps) == \E G : Closed(G) /\ steps \in Seq(G) /\ \A t \in G : t.do \notin Stirring

RaisesNow(steps) == \E i \in DOMAIN steps : steps[i].do \in Raising
Raises(steps) ==
    \E i \in DOMAIN steps :
        \/ steps[i].do \in Raising
        \/ "steps" \in DOMAIN steps[i] /\ RaisesNow(steps[i].steps)

LEMMA RaisesIsInserting ==
    ASSUME NEW m, Raises(m.steps) PROVE Inserting(m)
<1>1. PICK i \in DOMAIN m.steps :
         \/ m.steps[i].do \in Raising
         \/ "steps" \in DOMAIN m.steps[i] /\ RaisesNow(m.steps[i].steps)
  BY DEF Raises
<1>2. m.steps[i] \in Range(m.steps)
  BY DEF Range
<1>3. \A x : x \subseteq Deeper(x)
  BY DEF Deeper
<1>4. Deeper(Range(m.steps)) \subseteq StepsOf(m)
  BY <1>3 DEF StepsOf
<1>5. CASE m.steps[i].do \in Raising
  BY <1>2, <1>3, <1>4, <1>5 DEF Inserting, Raising
<1>6. CASE "steps" \in DOMAIN m.steps[i] /\ RaisesNow(m.steps[i].steps)
  <2>1. PICK j \in DOMAIN m.steps[i].steps : m.steps[i].steps[j].do \in Raising
    BY <1>6 DEF RaisesNow
  <2>2. m.steps[i].steps[j] \in Range(m.steps[i].steps)
    BY DEF Range
  <2>3. m.steps[i].steps[j] \in Deeper(Range(m.steps))
    BY <1>2, <1>6, <2>2 DEF Deeper
  <2> QED BY <1>4, <2>1, <2>3 DEF Inserting, Raising
<1> QED BY <1>1, <1>5, <1>6

LEMMA CatSeq ==
    ASSUME NEW G, NEW H, NEW a \in Seq(G), NEW b \in Seq(H)
    PROVE  /\ a \o b \in Seq(G \cup H)
           /\ \A i \in DOMAIN a : i \in DOMAIN (a \o b) /\ (a \o b)[i] = a[i]
           /\ \A i \in DOMAIN b : /\ Len(a) + i \in DOMAIN (a \o b)
                                  /\ (a \o b)[Len(a) + i] = b[i]
<1>1. a \in Seq(G \cup H) /\ b \in Seq(G \cup H)
  OBVIOUS
<1> QED BY <1>1

LEMMA ClosedUnion ==
    ASSUME NEW G, NEW H, Closed(G), Closed(H) PROVE Closed(G \cup H)
<1>1. \A s : s \in Seq(G) \/ s \in Seq(H) => s \in Seq(G \cup H)
  OBVIOUS
<1> QED BY <1>1 DEF Closed

LEMMA FormedCat == \A a, b : Formed(a) /\ Formed(b) => Formed(a \o b)
<1> SUFFICES ASSUME NEW a, NEW b, Formed(a), Formed(b) PROVE Formed(a \o b)
  OBVIOUS
<1>1. PICK G : Closed(G) /\ a \in Seq(G)
  BY DEF Formed
<1>2. PICK H : Closed(H) /\ b \in Seq(H)
  BY DEF Formed
<1>3. Closed(G \cup H) /\ a \o b \in Seq(G \cup H)
  BY <1>1, <1>2, CatSeq, ClosedUnion
<1> QED BY <1>3 DEF Formed

LEMMA CalmCat == \A a, b : Calm(a) /\ Calm(b) => Calm(a \o b)
<1> SUFFICES ASSUME NEW a, NEW b, Calm(a), Calm(b) PROVE Calm(a \o b)
  OBVIOUS
<1>1. PICK G : Closed(G) /\ a \in Seq(G) /\ \A t \in G : t.do \notin Stirring
  BY DEF Calm
<1>2. PICK H : Closed(H) /\ b \in Seq(H) /\ \A t \in H : t.do \notin Stirring
  BY DEF Calm
<1>3. Closed(G \cup H) /\ a \o b \in Seq(G \cup H)
  BY <1>1, <1>2, CatSeq, ClosedUnion
<1>4. \A t \in G \cup H : t.do \notin Stirring
  BY <1>1, <1>2
<1> QED BY <1>3, <1>4 DEF Calm

LEMMA RaisesCat ==
    \A a, b : Formed(a) /\ Formed(b) =>
        /\ Raises(a) \/ Raises(b) => Raises(a \o b)
        /\ RaisesNow(a) \/ RaisesNow(b) => RaisesNow(a \o b)
<1> SUFFICES ASSUME NEW a, NEW b, Formed(a), Formed(b)
             PROVE  /\ Raises(a) \/ Raises(b) => Raises(a \o b)
                    /\ RaisesNow(a) \/ RaisesNow(b) => RaisesNow(a \o b)
  OBVIOUS
<1>1. PICK G : a \in Seq(G)
  BY DEF Formed
<1>2. PICK H : b \in Seq(H)
  BY DEF Formed
<1>3. /\ \A i \in DOMAIN a : i \in DOMAIN (a \o b) /\ (a \o b)[i] = a[i]
      /\ \A i \in DOMAIN b : Len(a) + i \in DOMAIN (a \o b) /\ (a \o b)[Len(a) + i] = b[i]
  BY <1>1, <1>2, CatSeq
<1> QED BY <1>3 DEF Raises, RaisesNow

LEMMA OneStep ==
    ASSUME NEW t, t.do \notin Nesting
    PROVE  /\ Formed(<<t>>)
           /\ t.do \notin Stirring => Calm(<<t>>)
           /\ t.do \in Raising => Raises(<<t>>) /\ RaisesNow(<<t>>)
<1>1. Closed({t}) /\ <<t>> \in Seq({t})
  BY DEF Closed
<1>2. 1 \in DOMAIN <<t>> /\ <<t>>[1] = t
  OBVIOUS
<1> QED BY <1>1, <1>2 DEF Formed, Calm, Raises, RaisesNow

LEMMA Nested ==
    ASSUME NEW t, "steps" \in DOMAIN t
    PROVE  /\ Formed(t.steps) => Formed(<<t>>)
           /\ Calm(t.steps) /\ t.do \notin Stirring => Calm(<<t>>)
           /\ RaisesNow(t.steps) => Raises(<<t>>)
<1>1. ASSUME NEW G, Closed(G), t.steps \in Seq(G)
      PROVE  Closed(G \cup {t}) /\ <<t>> \in Seq(G \cup {t})
  <2>1. \A s \in Seq(G) : s \in Seq(G \cup {t})
    OBVIOUS
  <2> QED BY <1>1, <2>1 DEF Closed
<1>2. Formed(t.steps) => Formed(<<t>>)
  BY <1>1 DEF Formed
<1>3. Calm(t.steps) /\ t.do \notin Stirring => Calm(<<t>>)
  <2> SUFFICES ASSUME Calm(t.steps), t.do \notin Stirring PROVE Calm(<<t>>)
    OBVIOUS
  <2>1. PICK G : Closed(G) /\ t.steps \in Seq(G) /\ \A u \in G : u.do \notin Stirring
    BY DEF Calm
  <2>2. \A u \in G \cup {t} : u.do \notin Stirring
    BY <2>1
  <2>3. Closed(G \cup {t}) /\ <<t>> \in Seq(G \cup {t})
    BY <1>1, <2>1
  <2> QED BY <2>2, <2>3 DEF Calm
<1>4. 1 \in DOMAIN <<t>> /\ <<t>>[1] = t
  OBVIOUS
<1>5. RaisesNow(t.steps) => Raises(<<t>>)
  BY <1>4 DEF Raises
<1> QED BY <1>2, <1>3, <1>5

LEMMA CalmIsFormed == \A steps : Calm(steps) => Formed(steps)
  BY DEF Calm, Formed

LEMMA SingleSteps ==
    /\ Calm(Find) /\ Calm(FindOrFail) /\ Calm(FindBare) /\ Calm(FindBareOrFail)
    /\ Calm(Exists) /\ Calm(Write) /\ Calm(Remove) /\ Calm(MayRemove) /\ Calm(SoftRemove)
    /\ Calm(NeedFound) /\ Calm(NeedRelations) /\ Calm(NoRows) /\ Calm(Fail)
    /\ \A key : Calm(Save(key)) /\ Calm(SaveOrForget(key)) /\ Calm(Forget(key))
    /\ \A s \in {Insert, Upsert, Restore} : Formed(s) /\ Raises(s) /\ RaisesNow(s)
    /\ Formed(SaveRow)
<1> USE DEF Nesting, Stirring, Raising
<1>1. \A do : do \notin Nesting =>
         /\ Formed(Step(do))
         /\ do \notin Stirring => Calm(Step(do))
         /\ do \in Raising => Raises(Step(do)) /\ RaisesNow(Step(do))
  BY OneStep DEF Step
<1>2. \A must, full : Calm(Load(must, full))
  BY OneStep DEF Load
<1>3. \A do, key : do \notin Nesting /\ do \notin Stirring => Calm(Keyed(do, key))
  BY OneStep DEF Keyed
<1>4. /\ Calm(Find) /\ Calm(FindOrFail) /\ Calm(FindBare) /\ Calm(FindBareOrFail)
      /\ \A key : Calm(Save(key)) /\ Calm(SaveOrForget(key)) /\ Calm(Forget(key))
  BY <1>2, <1>3 DEF Find, FindOrFail, FindBare, FindBareOrFail, Save, SaveOrForget, Forget
<1>5. /\ Calm(Exists) /\ Calm(Write) /\ Calm(Remove) /\ Calm(MayRemove)
      /\ Calm(SoftRemove) /\ Calm(NeedFound) /\ Calm(NeedRelations) /\ Calm(NoRows)
      /\ Calm(Fail) /\ Formed(SaveRow)
  BY <1>1 DEF Exists, Write, Remove, MayRemove, SoftRemove, NeedFound, NeedRelations,
              NoRows, Fail, SaveRow
<1>6. \A s \in {Insert, Upsert, Restore} : Formed(s) /\ Raises(s) /\ RaisesNow(s)
  BY <1>1 DEF Insert, Upsert, Restore
<1> QED BY <1>4, <1>5, <1>6

LEMMA NestedSteps ==
    /\ \A steps :
          /\ Formed(steps) =>
                /\ Formed(IfThere(steps)) /\ Formed(IfFound(steps))
                /\ Formed(IfAbsent(steps)) /\ Formed(Maybe(steps))
          /\ Calm(steps) =>
                /\ Calm(IfThere(steps)) /\ Calm(IfFound(steps))
                /\ Calm(IfAbsent(steps)) /\ Calm(Maybe(steps))
          /\ RaisesNow(steps) => Raises(IfAbsent(steps))
    /\ \A key, steps : /\ Formed(steps) => Formed(ReadFirst(key, steps))
                       /\ Calm(steps) => Calm(ReadFirst(key, steps))
<1>1. \A do, steps :
         /\ Formed(steps) => Formed(Branch(do, steps))
         /\ Calm(steps) /\ do \notin Stirring => Calm(Branch(do, steps))
         /\ RaisesNow(steps) => Raises(Branch(do, steps))
  BY Nested DEF Branch
<1>2. \A key, steps : /\ Formed(steps) => Formed(ReadFirst(key, steps))
                      /\ Calm(steps) => Calm(ReadFirst(key, steps))
  BY Nested DEF ReadFirst, Stirring, Raising
<1> QED BY <1>1, <1>2 DEF IfThere, IfFound, IfAbsent, Maybe, Stirring, Raising

LEMMA MethodSteps ==
    \A steps : /\ Reads(steps).steps = steps /\ Creates(steps).steps = steps
               /\ Updates(steps).steps = steps /\ Changes(steps).steps = steps
               /\ Deletes(steps).steps = steps
  BY DEF Method, Reads, Creates, Updates, Changes, Deletes

\* All of these, to look through the methods with.
LEMMA StepLaws ==
    /\ \A a, b : Formed(a) /\ Formed(b) => Formed(a \o b)
    /\ \A a, b : Calm(a) /\ Calm(b) => Calm(a \o b)
    /\ \A a, b : Formed(a) /\ Formed(b) =>
          /\ Raises(a) \/ Raises(b) => Raises(a \o b)
          /\ RaisesNow(a) \/ RaisesNow(b) => RaisesNow(a \o b)
    /\ \A steps : Calm(steps) => Formed(steps)
    /\ Calm(Find) /\ Calm(FindOrFail) /\ Calm(FindBare) /\ Calm(FindBareOrFail)
    /\ Calm(Exists) /\ Calm(Write) /\ Calm(Remove) /\ Calm(MayRemove) /\ Calm(SoftRemove)
    /\ Calm(NeedFound) /\ Calm(NeedRelations) /\ Calm(NoRows) /\ Calm(Fail)
    /\ \A key : Calm(Save(key)) /\ Calm(SaveOrForget(key)) /\ Calm(Forget(key))
    /\ \A s \in {Insert, Upsert, Restore} : Formed(s) /\ Raises(s) /\ RaisesNow(s)
    /\ Formed(SaveRow)
    /\ \A steps :
          /\ Formed(steps) =>
                /\ Formed(IfThere(steps)) /\ Formed(IfFound(steps))
                /\ Formed(IfAbsent(steps)) /\ Formed(Maybe(steps))
          /\ Calm(steps) =>
                /\ Calm(IfThere(steps)) /\ Calm(IfFound(steps))
                /\ Calm(IfAbsent(steps)) /\ Calm(Maybe(steps))
          /\ RaisesNow(steps) => Raises(IfAbsent(steps))
    /\ \A key, steps : /\ Formed(steps) => Formed(ReadFirst(key, steps))
                       /\ Calm(steps) => Calm(ReadFirst(key, steps))
    /\ \A key : Calm(ReadThrough(key)) /\ Calm(ReadOrFail(key)) /\ Calm(ReadAll(key))
    /\ \A steps : /\ Reads(steps).steps = steps /\ Creates(steps).steps = steps
                  /\ Updates(steps).steps = steps /\ Changes(steps).steps = steps
                  /\ Deletes(steps).steps = steps
<1>1. \A key : Calm(ReadThrough(key)) /\ Calm(ReadOrFail(key)) /\ Calm(ReadAll(key))
  BY SingleSteps, NestedSteps, CalmCat DEF ReadThrough, ReadOrFail, ReadAll
<1> QED BY <1>1, FormedCat, CalmCat, RaisesCat, CalmIsFormed, SingleSteps, NestedSteps,
           MethodSteps

\* A method makes no row, but for those that say so and those that save an old one.
Told(service) ==
    \A m \in DOMAIN service :
        /\ Formed(service[m].steps)
        /\ m \in Resurrecting \/ Raises(service[m].steps) \/ Calm(service[m].steps)

LEMMA ServicesTold == \A s \in DOMAIN Services : Told(Services[s])
<1>1. Told(userService)
  BY StepLaws DEF Told, userService, createUser, registerUser, getByEmail, updateUser,
      deleteUser, getByPhone
<1>2. Told(userRoleService)
  BY StepLaws DEF Told, userRoleService, createUserRole, cacheUserRoles,
      getRolesByUserId, deleteUserRole, removeAllRolesFromUser,
      bulkRemoveRolesFromUser, updateUserRole
<1>3. Told(kycProfileService)
  BY StepLaws DEF Told, kycProfileService, createKycProfile, updateKycProfile,
      getKycProfile, deleteKycProfile, getKycProfilesByType, getKycProfilesByStatus,
      getProfilesByUserId, getProfilesByOrganizationId
<1>4. Told(kycRequirementService)
  BY StepLaws DEF Told, kycRequirementService, createKycRequirement,
      updateKycRequirement, getKycRequirement, deleteKycRequirement
<1>5. Told(accessPolicyService)
  BY StepLaws DEF Told, accessPolicyService, createPolicy, updatePolicy, deletePolicy,
      getPolicyByResourceAndAction
<1>6. Told(permissionService)
  BY StepLaws DEF Told, Resurrecting, permissionService, createPermission,
      updatePermission, getPermission, deletePermission, getByCode,
      getPermissionCodeById
<1>7. Told(rolePermissionService)
  BY StepLaws DEF Told, rolePermissionService, createRolePermission,
      cachePermissionsForRole, getPermissionsByRole, deleteRolePermission,
      getRolePermission, getByRoleIdAndPermissionId
<1>8. Told(roleService)
  BY StepLaws DEF Told, Resurrecting, roleService, createRole, updateRole, getRole,
      deleteRole
<1>9. Told(paymentProviderConfigService)
  BY StepLaws DEF Told, paymentProviderConfigService, createPaymentProviderConfig,
      getConfigsByProviderCode, updateConfigByProviderCode, deleteConfigByProviderCode
<1>10. Told(paymentProviderService)
  BY StepLaws DEF Told, paymentProviderService, createPaymentProvider,
      getPaymentProviderByCode, updatePaymentProviderByCode,
      deletePaymentProviderByCode, getAllPaymentProviders
<1>11. Told(clientAppService)
  BY StepLaws DEF Told, clientAppService, createClientApp, getClientAppByAppId,
      getClientAppsByStatus, updateClientAppByAppId, refreshClientApp,
      deleteClientAppByAppId
<1>12. Told(clientAppConfigService)
  BY StepLaws DEF Told, clientAppConfigService, getClientAppConfigByAppId,
      updateClientAppConfigByAppId, refreshClientAppConfig,
      deleteClientAppConfigByAppId
<1>13. Told(organizationService)
  BY StepLaws DEF Told, organizationService, createOrganization, getOrganizationById,
      updateOrganizationById, refreshOrganization, updateOrganizationConfig,
      softDeleteOrganization, restoreOrganization, deleteOrganizationById,
      getOrganizationWithRelations
<1>14. Told(organizationTypeService)
  BY StepLaws DEF Told, organizationTypeService, createOrganizationType,
      getOrganizationTypeByName, getActiveOrganizationTypes, updateOrganizationType,
      deleteOrganizationType
<1>15. Told(organizationUserRoleService)
  BY StepLaws DEF Told, organizationUserRoleService, createOrganizationUserRole,
      cacheRolesByOrganizationUserId, getRolesByOrganizationUserId,
      deleteOrganizationUserRole, deleteRolesByOrganizationUserId
<1>16. Told(catalogAddonService)
  BY StepLaws DEF Told, Resurrecting, catalogAddonService, createCatalogAddon,
      cacheAddonById, getCatalogAddonById, updateCatalogAddonById, addAddonToCatalog,
      removeAddonFromCatalog, deleteCatalogAddonById
<1>17. Told(catalogCategoryService)
  BY StepLaws DEF Told, Resurrecting, catalogCategoryService, createCategory,
      cacheCategory, getCategoryByName, getCategoriesByType, updateCategoryByName,
      invalidateCategory, addCatalogToCategory, removeCatalogFromCategory,
      deleteCategoryByName
<1>18. Told(catalogItemPricingService)
  BY StepLaws DEF Told, catalogItemPricingService, createCatalogItemPricing,
      cachePricingByCatalogItemId, getPricingByCatalogItemId,
      updatePricingByCatalogItemId, deletePricingByCatalogItemId
<1>19. Told(catalogService)
  BY StepLaws DEF Told, catalogService, createCatalogItem, getCatalogByCode,
      updateCatalogByCode, deleteCatalogByCode, updateMetadataByCode
<1>20. Told(addressComponentService)
  BY StepLaws DEF Told, addressComponentService, createComponent, updateComponent,
      getComponent, deleteComponent, bulkDeleteComponents, searchPaginated,
      moveComponent, upsertByTypeValueParent, bulkUpsert
<1>21. Told(locationAddressComponentService)
  BY StepLaws DEF Told, locationAddressComponentService, createLink, updateLink,
      getLink, deleteLink, bulkDeleteLinks, getByLocation, getByAddressComponent,
      ensureSinglePrimary, reorderSequences, upsertLink, bulkUpsertLinks,
      clearCenterPoint
<1>22. Told(locationService)
  BY StepLaws DEF Told, Resurrecting, locationService, createLocation,
      attachAddressComponents, getLocation, updateLocation, deleteLocation,
      listLocations, moveLocation, findNearest, findWithinRadius, findContainingPoint
<1>23. Told(propertyAddressService)
  BY StepLaws DEF Told, propertyAddressService, getAddressesByProperty,
      getAddressByLabel, baseCreate, baseUpdate, baseDelete
<1>24. Told(propertyOwnerService)
  BY StepLaws DEF Told, propertyOwnerService, createOwner, updateOwner, deleteOwner
<1>25. Told(propertyRequestService)
  BY StepLaws DEF Told, propertyRequestService, createRequest, updateRequest,
      deleteRequest, getRequestsByProperty
<1>26. Told(propertyService)
  BY StepLaws DEF Told, propertyService, createProperty, updateProperty,
      deleteProperty, getPropertyByCode, getPropertiesByOrganization,
      getPropertiesByOwner, getListedProperties
<1>27. Told(propertyStaffService)
  BY StepLaws DEF Told, propertyStaffService, createStaff, updateStaff, deleteStaff,
      getStaffByProperty, getStaffByUser
<1>28. Told(propertyUnitTenantService)
  BY StepLaws DEF Told, propertyUnitTenantService, createUnitTenant, updateUnitTenant,
      deleteUnitTenant, getTenantsByProperty, getTenantsByUnit, getTenanciesByUser
<1>29. Told(propertyUnitService)
  BY StepLaws DEF Told, propertyUnitService, createUnit, updateUnit, deleteUnit,
      getUnitsByProperty, getAvailableUnits, getUnitByNumber
<1>30. Told(propertyLeasePaymentService)
  BY StepLaws DEF Told, propertyLeasePaymentService, createPayment, updatePayment,
      getPaymentById
<1>31. Told(propertyLeasePaymentTypeService)
  BY StepLaws DEF Told, propertyLeasePaymentTypeService, createPaymentType,
      updatePaymentType, deletePaymentType, getPaymentTypeByCode
<1>32. Told(propertyLeaseAgreementService)
  BY StepLaws DEF Told, propertyLeaseAgreementService, createLeaseAgreement,
      updateLeaseAgreement, extendLease, terminateLease, deleteLeaseAgreement,
      getByTenant, getByLandlord, getLeaseAgreementWithDetails
<1> QED BY <1>1, <1>2, <1>3, <1>4, <1>5, <1>6, <1>7, <1>8, <1>9, <1>10, <1>11, <1>12,
      <1>13, <1>14, <1>15, <1>16, <1>17, <1>18, <1>19, <1>20, <1>21, <1>22, <1>23,
      <1>24, <1>25, <1>26, <1>27, <1>28, <1>29, <1>30, <1>31, <1>32 DEF Services
-----------------------------------------------------------------------------
(* The steps to take, of those of a method.                                *)

LEMMA DueIsThere ==
    ASSUME NEW G, NEW keys, NEW steps \in Seq(G)
    PROVE  Due(keys, steps) \in Seq(G)
<1> DEFINE D == 0..Len(steps)
           Rule(f, n) == IF n = 0 THEN <<>>
                         ELSE IF PassedOver(keys, steps[n]) THEN f[n - 1]
                         ELSE Append(f[n - 1], steps[n])
           upTo == CHOOSE f : f = [n \in D |-> Rule(f, n)]
           nxt == [n \in D |-> IF n = 0 THEN 0 ELSE n - 1]
           val == [n \in D |-> Len(steps) - n]
           step == [n \in D |-> [v \in Seq(G) |-> IF n = 0 \/ PassedOver(keys, steps[n]) THEN v
                                                  ELSE Append(v, steps[n])]]
           stop == [n \in D |-> <<>>]
<1>1. Len(steps) \in Nat /\ \A n \in D \ {0} : steps[n] \in G
  OBVIOUS
<1>2. LoopOver(D, Seq(G), val, Len(steps), nxt, D \ {0}, stop, step)
  <2>1. val \in [D -> Nat] /\ nxt \in [D -> D] /\ stop \in [D -> Seq(G)]
    BY <1>1
  <2>2. step \in [D -> [Seq(G) -> Seq(G)]]
    BY <1>1
  <2>3. \A d \in D : d \in D \ {0} => val[d] < val[nxt[d]] /\ val[d] < Len(steps)
    BY <1>1
  <2> HIDE DEF val, nxt, stop, step, D
  <2> QED BY <1>1, <2>1, <2>2, <2>3 DEF LoopOver
<1>3. PICK f \in [D -> Seq(G)] : LoopResult(f, D, nxt, D \ {0}, stop, step)
  <2> HIDE DEF val, nxt, stop, step, D
  <2> QED BY <1>2, LoopExists
<1>4. ASSUME NEW n \in D PROVE f[n] = Rule(f, n)
  <2>1. f[n] = IF n \in D \ {0} THEN step[n][f[nxt[n]]] ELSE stop[n]
    BY <1>3 DEF LoopResult
  <2>2. CASE n = 0
    BY <2>1, <2>2
  <2>3. CASE n # 0
    <3>1. n - 1 \in D
      BY <1>1, <2>3
    <3>2. nxt[n] = n - 1 /\ f[n - 1] \in Seq(G)
      BY <2>3, <3>1
    <3> QED BY <2>1, <2>3, <3>2
  <2> QED BY <2>2, <2>3
<1>5. f = [n \in D |-> Rule(f, n)]
  BY <1>4
<1>6. upTo = [n \in D |-> Rule(upTo, n)]
  <2> HIDE DEF D, Rule
  <2> QED BY <1>5
<1> HIDE DEF upTo
<1> DEFINE S == {n \in D : upTo[n] \in Seq(G)}
<1>7. 0 \in S
  BY <1>1, <1>6
<1>8. ASSUME NEW n \in 0..(Len(steps) - 1), n \in S PROVE n + 1 \in S
  <2>1. n + 1 \in D \ {0} /\ (n + 1) - 1 = n
    BY <1>1
  <2>2. upTo[n + 1] = IF PassedOver(keys, steps[n + 1]) THEN upTo[n]
                      ELSE Append(upTo[n], steps[n + 1])
    BY <1>6, <2>1
  <2>3. upTo[n] \in Seq(G) /\ steps[n + 1] \in G
    BY <1>1, <1>8, <2>1
  <2>4. upTo[n + 1] \in Seq(G)
    <3> HIDE DEF D
    <3> QED BY <2>2, <2>3
  <2> QED BY <2>1, <2>4
<1>9. Len(steps) \in S
  <2> HIDE DEF S
  <2>1. 0..Len(steps) \subseteq S
    BY <1>1, <1>7, <1>8, IntervalInduction
  <2> QED BY <1>1, <2>1
<1>10. Due(keys, steps) = upTo[Len(steps)]
  BY DEF Due, upTo
<1> QED BY <1>9, <1>10

LEMMA DueKeeps ==
    \A keys, steps : /\ Formed(steps) => Formed(Due(keys, steps))
                     /\ Calm(steps) => Calm(Due(keys, steps))
  BY DueIsThere DEF Formed, Calm

LEMMA TailKeeps ==
    ASSUME NEW steps, steps # <<>>
    PROVE  /\ Formed(steps) => Formed(Tail(steps)) /\ Tail(steps) # steps
           /\ Calm(steps) => Calm(Tail(steps))
  BY DEF Formed, Calm

\* The steps nested in the first one.
LEMMA HeadKeeps ==
    ASSUME NEW steps, steps # <<>>, Head(steps).do \in Nesting
    PROVE  /\ Formed(steps) => Formed(Head(steps).steps)
           /\ Calm(steps) => Calm(Head(steps).steps)
  BY DEF Formed, Calm, Closed

LEMMA CalmHead ==
    ASSUME NEW steps, steps # <<>>, Calm(steps)
    PROVE  Head(steps).do \notin Stirring
  BY DEF Calm

-----------------------------------------------------------------------------
(* A row that is gone stays so.                                            *)

\* What a worker has still to do is steps of a method, and without making a row unless
\* the method is known for it.
CalmAt(w) ==
    method[w] # Idle =>
        /\ Formed(rest[w])
        /\ \/ method[w] \in Resurrecting
           \/ Raises(Methods[method[w]].steps)
           \/ Calm(rest[w])

CalmInv == TypeInv /\ \A w \in Workers : CalmAt(w)

LEMMA CalmInit == Init => CalmInv
  BY InitType DEF CalmInv, CalmAt, Init

\* The steps are those of the method served, less those passed over.
LEMMA CalmBegin ==
    ASSUME CalmInv, NEW w \in Workers, Begin(w)
    PROVE  \A v \in Workers : CalmAt(v)'
<1>1. PICK m \in Relevant[subject] :
         /\ method' = [method EXCEPT ![w] = m]
         /\ rest' = [rest EXCEPT ![w] = Due(subject.keys, Methods[m].steps)]
  BY DEF Begin
<1>2. UNCHANGED subject
  BY DEF Begin
<1>3. subject \in Subjects /\ subject.service \in DOMAIN Services
  BY ServicesAssumption DEF CalmInv, TypeInv, TypeOK, Subjects
<1>4. m \in DOMAIN Methods
  BY <1>3 DEF Relevant, Methods
<1>5. /\ Formed(Methods[m].steps)
      /\ m \in Resurrecting \/ Raises(Methods[m].steps) \/ Calm(Methods[m].steps)
  BY <1>3, <1>4, ServicesTold DEF Told, Methods
<1>6. CalmAt(w)'
  <2>1. method'[w] = m /\ rest'[w] = Due(subject.keys, Methods[m].steps) /\ Methods' = Methods
    BY <1>1, <1>2 DEF CalmInv, TypeInv, Functions4, Methods
  <2> QED BY <1>5, <2>1, DueKeeps DEF CalmAt
<1>7. ASSUME NEW v \in Workers, v # w PROVE CalmAt(v)'
  <2>1. method'[v] = method[v] /\ rest'[v] = rest[v] /\ Methods' = Methods
    BY <1>1, <1>2, <1>7 DEF CalmInv, TypeInv, Functions4, Methods
  <2> QED BY <2>1 DEF CalmAt, CalmInv
<1> QED BY <1>6, <1>7

\* A step taken or entered leaves steps of the method.
LEMMA CalmStep ==
    ASSUME CalmInv, NEW w \in Workers, rest[w] # <<>>, UNCHANGED <<subject, method>>,
           GoOn(w) \/ (This(w).do \in Nesting /\ Enter(w, This(w).steps))
    PROVE  \A v \in Workers : CalmAt(v)'
<1>1. Methods' = Methods
  BY DEF Methods
<1>2. method[w] # Idle /\ Formed(rest[w])
  BY Busy DEF CalmInv, CalmAt
<1>3. Formed(Tail(rest[w])) /\ (Calm(rest[w]) => Calm(Tail(rest[w])))
  BY <1>2, TailKeeps
<1>4. CASE GoOn(w)
  <2>1. \A v \in Workers : rest'[v] = IF v = w THEN Tail(rest[w]) ELSE rest[v]
    BY <1>4 DEF GoOn, CalmInv, TypeInv, Functions4
  <2> QED BY <1>1, <1>2, <1>3, <2>1 DEF CalmAt, CalmInv
<1>5. CASE This(w).do \in Nesting /\ Enter(w, This(w).steps)
  <2> DEFINE next == Due(subject.keys, This(w).steps) \o Tail(rest[w])
  <2>1. \A v \in Workers : rest'[v] = IF v = w THEN next ELSE rest[v]
    BY <1>5 DEF Enter, CalmInv, TypeInv, Functions4
  <2>2. Formed(This(w).steps) /\ (Calm(rest[w]) => Calm(This(w).steps))
    BY <1>2, <1>5, HeadKeeps DEF This
  <2>3. Formed(next) /\ (Calm(rest[w]) => Calm(next))
    BY <1>3, <2>2, DueKeeps, FormedCat, CalmCat
  <2> HIDE DEF next
  <2> QED BY <1>1, <1>2, <2>1, <2>3 DEF CalmAt, CalmInv
<1> QED BY <1>4, <1>5

LEMMA CalmEnd ==
    ASSUME CalmInv, NEW w \in Workers, End(w)
    PROVE  \A v \in Workers : CalmAt(v)'
  BY DEF CalmInv, CalmAt, End, TypeInv, Functions4, Methods

LEMMA CalmNext == CalmInv /\ [Next]_vars => CalmInv'
<1> SUFFICES ASSUME CalmInv, [Next]_vars PROVE CalmInv'
  OBVIOUS
<1>1. TypeInv'
  BY NextType DEF CalmInv
<1>2. ASSUME UNCHANGED <<subject, method, rest>> PROVE \A v \in Workers : CalmAt(v)'
  BY <1>2 DEF CalmInv, CalmAt, Methods
<1>3. ASSUME NEW w \in Workers, Begin(w) \/ Serve(w) \/ Abandon(w)
      PROVE  \A v \in Workers : CalmAt(v)'
  <2>1. CASE Begin(w)
    BY <2>1, CalmBegin
  <2>2. CASE Throw(w) \/ Respond(w) \/ Abandon(w)
    BY <2>2, CalmEnd DEF Throw, Respond, Abandon
  <2>3. CASE \/ Query(w) \/ Check(w) \/ TakeNone(w) \/ Store(w) \/ Delete(w)
             \/ InsertRow(w) \/ UpdateRow(w) \/ UpsertRow(w) \/ RemoveRow(w)
             \/ RestoreRow(w)
    <3>1. rest[w] # <<>> /\ UNCHANGED <<subject, method>> /\ GoOn(w)
      BY <2>3, AtBusy DEF Query, Check, TakeNone, Store, Delete, InsertRow, UpdateRow,
                          UpsertRow, RemoveRow, RestoreRow
    <3> QED BY <3>1, CalmStep
  <2>4. CASE Choose(w) \/ Lookup(w)
    <3>1. /\ rest[w] # <<>> /\ UNCHANGED <<subject, method>>
          /\ GoOn(w) \/ (This(w).do \in Nesting /\ Enter(w, This(w).steps))
      BY <2>4 DEF Choose, Lookup, At, This, Nesting
    <3> QED BY <3>1, CalmStep
  <2> QED BY <1>3, <2>1, <2>2, <2>3, <2>4 DEF Serve
<1>4. ASSUME NEW key \in subject.keys, Expire(key) PROVE \A v \in Workers : CalmAt(v)'
  BY <1>2, <1>4 DEF Expire
<1>5. \A v \in Workers : CalmAt(v)'
  BY <1>2, <1>3, <1>4 DEF Next, vars
<1> QED BY <1>1, <1>5 DEF CalmInv

\* Only these steps make a row.
LEMMA RowReturns ==
    ASSUME [Next]_vars, row # "there", row' = "there"
    PROVE  \E w \in Workers :
              /\ rest[w] # <<>> /\ This(w).do \in Stirring
              /\ GoOn(w)
<1>1. PICK w \in Workers : InsertRow(w) \/ UpsertRow(w) \/ RestoreRow(w)
  <2>1. Next
    BY DEF vars
  <2>2. \A key : ~Expire(key)
    BY DEF Expire
  <2>3. PICK w \in Workers : Begin(w) \/ Serve(w) \/ Abandon(w)
    BY <2>1, <2>2 DEF Next
  <2>4. /\ ~Begin(w) /\ ~Throw(w) /\ ~Respond(w) /\ ~Abandon(w)
        /\ ~Query(w) /\ ~Check(w) /\ ~Choose(w) /\ ~TakeNone(w) /\ ~Lookup(w)
        /\ ~Store(w) /\ ~Delete(w)
    BY DEF Begin, Throw, Respond, Abandon, End, Query, Check, Choose, TakeNone, Lookup,
           Store, Delete
  <2>5. ~UpdateRow(w) /\ ~RemoveRow(w)
    BY DEF UpdateRow, RemoveRow, Change, Alter, Matches, Present
  <2> QED BY <2>3, <2>4, <2>5 DEF Serve
<1>2. rest[w] # <<>> /\ This(w).do \in Stirring
  BY <1>1 DEF InsertRow, UpsertRow, RestoreRow, At, This, Stirring, Raising
<1>3. GoOn(w)
  BY <1>1 DEF InsertRow, UpsertRow, RestoreRow
<1> QED BY <1>2, <1>3

LEMMA DeletedStep == CalmInv /\ [Next]_vars =>
    [row # "there" /\ row' = "there" =>
        \E w \in Workers :
            /\ method[w] # Idle /\ rest'[w] # rest[w]
            /\ Inserting(Methods[method[w]]) \/ method[w] \in Resurrecting]_vars
<1> SUFFICES ASSUME CalmInv, [Next]_vars, row # "there", row' = "there"
             PROVE  \E w \in Workers :
                       /\ method[w] # Idle /\ rest'[w] # rest[w]
                       /\ Inserting(Methods[method[w]]) \/ method[w] \in Resurrecting
  OBVIOUS
<1>1. PICK w \in Workers : rest[w] # <<>> /\ This(w).do \in Stirring /\ GoOn(w)
  BY RowReturns
<1>2. method[w] # Idle /\ Formed(rest[w])
  BY <1>1, Busy DEF CalmInv, CalmAt
<1>3. rest'[w] # rest[w]
  <2>1. rest'[w] = Tail(rest[w])
    BY <1>1 DEF GoOn, CalmInv, TypeInv, Functions4
  <2> QED BY <1>1, <1>2, <2>1, TailKeeps
<1>4. ~Calm(rest[w])
  BY <1>1, CalmHead DEF This
<1>5. method[w] \in Resurrecting \/ Raises(Methods[method[w]].steps)
  BY <1>2, <1>4 DEF CalmInv, CalmAt
<1> QED BY <1>2, <1>3, <1>5, RaisesIsInserting

\* A row that is deleted comes back only by a method that creates or restores rows, or by one
\* of the seven that save an entity they loaded, whatever services run and however many
\* requests at a time.
THEOREM DeletedAlwaysStaysDeleted == Spec => DeletedStaysDeleted
  BY CalmInit, CalmNext, DeletedStep, PTL DEF Spec, DeletedStaysDeleted

-----------------------------------------------------------------------------
(* A request by itself.                                                    *)

\* A subject is a service and one key, and the views are settled for each.
LEMMA SubjectViews ==
    ASSUME TypeInv
    PROVE  /\ subject \in EverySubject
           /\ \E key : subject.keys = {key}
           /\ AnyhowSettled(subject, View(subject).anyhow)
           /\ AloneSettled(subject, Begun(subject, View(subject).anyhow), View(subject).alone)
           /\ AloneRight(subject, View(subject).alone)
<1>1. PICK s \in Watched : subject \in [service : {s}, keys : KeySets(s)]
  BY DEF TypeInv, TypeOK, Subjects
<1>2. s \in DOMAIN Services
  BY ServicesAssumption
<1>3. subject \in EverySubject
  BY <1>1, <1>2 DEF EverySubject
<1>4. \E key : subject.keys = {key}
  BY <1>1 DEF KeySets
<1> QED BY <1>3, <1>4, MethodsAssumption

LEMMA QueryAfter ==
    ASSUME TypeInv, NEW w \in Workers, NEW key \in subject.keys, Query(w)
    PROVE  Now(w, key)' \in After(subject, Now(w, key))
<1>1. rest[w] # <<>> /\ Head(rest[w]).do = "find" /\ ~(Head(rest[w]).must /\ ~Present)
  BY DEF Query, At, Throws, This
<1>2. /\ rest'[w] = Tail(rest[w])
      /\ held'[w] = [found |-> Present, full |-> Present /\ This(w).full, current |-> TRUE]
      /\ method'[w] = method[w] /\ row' = row /\ entry' = entry /\ standing'[w] = standing[w]
  BY DEF Query, GoOn, Hold, TypeInv, Functions4
<1> QED BY <1>1, <1>2 DEF After, Now, Situation, Present, This

LEMMA CheckAfter ==
    ASSUME TypeInv, NEW w \in Workers, NEW key \in subject.keys, Check(w)
    PROVE  Now(w, key)' \in After(subject, Now(w, key))
<1>1. /\ rest[w] # <<>> /\ ~Throws(w)
      /\ Head(rest[w]).do \in {"exists", "needFound", "needRelations"}
  BY DEF Check, At
<1>2. /\ rest'[w] = Tail(rest[w]) /\ held'[w] = held[w]
      /\ method'[w] = method[w] /\ row' = row /\ entry' = entry /\ standing'[w] = standing[w]
  BY DEF Check, GoOn, TypeInv, Functions4
<1> QED BY <1>1, <1>2 DEF After, Now, Situation, Throws, At, This, Present

LEMMA ChooseAfter ==
    ASSUME TypeInv, NEW w \in Workers, NEW key \in subject.keys, Choose(w)
    PROVE  Now(w, key)' \in After(subject, Now(w, key))
<1>1. UNCHANGED <<subject, row, entry, method, held, standing>>
  BY DEF Choose
<1>2. \/ GoOn(w) /\ rest'[w] = Tail(rest[w])
      \/ /\ Enter(w, This(w).steps)
         /\ rest'[w] = Due(subject.keys, This(w).steps) \o Tail(rest[w])
  BY DEF Choose, GoOn, Enter, TypeInv, Functions4
<1>3. CASE At(w, "ifThere")
  <2>1. rest'[w] = IF Present THEN Due(subject.keys, This(w).steps) \o Tail(rest[w])
                              ELSE Tail(rest[w])
    BY <1>3 DEF Choose, GoOn, Enter, At, TypeInv, Functions4
  <2> QED BY <1>1, <1>3, <2>1 DEF After, Now, Situation, At, This, Present
<1>4. CASE At(w, "ifFound")
  <2>1. rest'[w] = IF held[w].found THEN Due(subject.keys, This(w).steps) \o Tail(rest[w])
                              ELSE Tail(rest[w])
    BY <1>4 DEF Choose, GoOn, Enter, At, TypeInv, Functions4
  <2> QED BY <1>1, <1>4, <2>1 DEF After, Now, Situation, At, This
<1>5. CASE At(w, "ifAbsent")
  <2>1. rest'[w] = IF held[w].found THEN Tail(rest[w])
                              ELSE Due(subject.keys, This(w).steps) \o Tail(rest[w])
    BY <1>5 DEF Choose, GoOn, Enter, At, TypeInv, Functions4
  <2> QED BY <1>1, <1>5, <2>1 DEF After, Now, Situation, At, This
<1>6. CASE At(w, "maybe")
  BY <1>1, <1>2, <1>6 DEF After, Now, Situation, At, This
<1> QED BY <1>3, <1>4, <1>5, <1>6 DEF Choose

LEMMA TakeNoneAfter ==
    ASSUME TypeInv, NEW w \in Workers, NEW key \in subject.keys, TakeNone(w)
    PROVE  Now(w, key)' \in After(subject, Now(w, key))
<1>1. rest[w] # <<>> /\ Head(rest[w]).do = "noRows"
  BY DEF TakeNone, At
<1>2. /\ rest'[w] = Tail(rest[w])
      /\ held'[w] = [NoCopy EXCEPT !.current = ~Present]
      /\ method'[w] = method[w] /\ row' = row /\ entry' = entry /\ standing'[w] = standing[w]
  BY DEF TakeNone, GoOn, Hold, TypeInv, Functions4
<1> QED BY <1>1, <1>2 DEF After, Now, Situation, Present

LEMMA LookupAfter ==
    ASSUME TypeInv, NEW w \in Workers, NEW key \in subject.keys, Lookup(w)
    PROVE  Now(w, key)' \in After(subject, Now(w, key))
<1>1. rest[w] # <<>> /\ Head(rest[w]).do = "lookup"
  BY DEF Lookup, At
<1>2. /\ method'[w] = method[w] /\ row' = row /\ entry' = entry
      /\ standing'[w] = standing[w]
  BY DEF Lookup
<1>3. CASE Enter(w, This(w).steps) /\ UNCHANGED held
  <2>1. rest'[w] = Due(subject.keys, This(w).steps) \o Tail(rest[w]) /\ held'[w] = held[w]
    BY <1>3 DEF Enter, TypeInv, Functions4
  <2> QED BY <1>1, <1>2, <2>1 DEF After, Now, Situation, This
<1>4. ASSUME This(w).key \in subject.keys, NEW copy \in entry[This(w).key], Hold(w, copy),
             GoOn(w)
      PROVE  Now(w, key)' \in After(subject, Now(w, key))
  <2>1. rest'[w] = Tail(rest[w]) /\ held'[w] = copy
    BY <1>4 DEF GoOn, Hold, TypeInv, Functions4
  <2>2. This(w).key = key
    BY <1>4, SubjectViews
  <2> QED BY <1>1, <1>2, <1>4, <2>1, <2>2 DEF After, Now, Situation, This
<1> QED BY <1>3, <1>4 DEF Lookup

\* What a statement that changes the row, or matches none, does to the situation.
LEMMA Altered ==
    ASSUME TypeInv, NEW w \in Workers, NEW key \in subject.keys, NEW newRow, NEW copy,
           Alter(w, newRow, copy), GoOn(w), UNCHANGED <<subject, method>>
    PROVE  Now(w, key)' =
              Situation(method[w], Tail(rest[w]), copy, newRow, {Aged(c) : c \in entry[key]},
                        IF standing[w] = "alone" THEN "changed" ELSE standing[w])
<1>1. row' = newRow /\ entry'[key] = {Aged(c) : c \in entry[key]} /\ held'[w] = copy
  BY DEF Alter
<1>2. standing'[w] = IF standing[w] = "alone" THEN "changed" ELSE standing[w]
  BY DEF Alter, Joined
<1>3. rest'[w] = Tail(rest[w]) /\ method'[w] = method[w]
  BY DEF GoOn, TypeInv, Functions4
<1> QED BY <1>1, <1>2, <1>3 DEF Now

LEMMA Matched ==
    ASSUME TypeInv, NEW w \in Workers, NEW key \in subject.keys,
           Matches(w), GoOn(w), UNCHANGED <<subject, method>>
    PROVE  Now(w, key)' =
              Situation(method[w], Tail(rest[w]), held[w], row, entry[key], standing[w])
<1>1. rest'[w] = Tail(rest[w])
  BY DEF GoOn, TypeInv, Functions4
<1> QED BY <1>1 DEF Now, Matches

LEMMA StatementAfter ==
    ASSUME TypeInv, NEW w \in Workers, NEW key \in subject.keys,
           \/ InsertRow(w) \/ UpdateRow(w) \/ UpsertRow(w) \/ RemoveRow(w) \/ RestoreRow(w)
    PROVE  Now(w, key)' \in After(subject, Now(w, key))
<1> DEFINE to(copy, newRow) ==
      Situation(method[w], Tail(rest[w]), copy, newRow, {Aged(c) : c \in entry[key]},
                IF standing[w] = "alone" THEN "changed" ELSE standing[w])
           on == Situation(method[w], Tail(rest[w]), held[w], row, entry[key], standing[w])
<1>1. GoOn(w) /\ UNCHANGED <<subject, method>>
  BY DEF InsertRow, UpdateRow, UpsertRow, RemoveRow, RestoreRow
<1>2. \A newRow, copy : Alter(w, newRow, copy) => Now(w, key)' = to(copy, newRow)
  BY <1>1, Altered
<1>3. \A newRow : Change(w, newRow) => Now(w, key)' = to(Aged(held[w]), newRow)
  BY <1>2 DEF Change
<1>4. Matches(w) => Now(w, key)' = on
  BY <1>1, Matched
<1> HIDE DEF to, on
<1>5. CASE InsertRow(w)
  <2>1. /\ rest[w] # <<>> /\ Head(rest[w]).do = "insert" /\ row = "absent"
        /\ Now(w, key)' = to(Written, "there")
    BY <1>2, <1>5 DEF InsertRow, At, Throws
  <2> QED BY <2>1 DEF After, Now, Situation, to
<1>6. CASE UpdateRow(w)
  <2>1. /\ rest[w] # <<>> /\ Head(rest[w]).do = "write"
        /\ Now(w, key)' = IF row = "there" THEN to(Aged(held[w]), "there") ELSE on
    BY <1>3, <1>4, <1>6 DEF UpdateRow, At, Present
  <2> QED BY <2>1 DEF After, Now, Situation, to, on
<1>7. CASE UpsertRow(w)
  <2>1. /\ rest[w] # <<>> /\ Head(rest[w]).do \in {"upsert", "saveRow"}
        /\ Now(w, key)' = to(Aged(held[w]), "there")
    BY <1>3, <1>7 DEF UpsertRow, At
  <2> QED BY <2>1 DEF After, Now, Situation, to
<1>8. CASE RemoveRow(w)
  <2>1. CASE At(w, "remove")
    <3>1. Now(w, key)' = IF row = "absent" THEN on ELSE to(Aged(held[w]), "absent")
      BY <1>3, <1>4, <1>8, <2>1 DEF RemoveRow, At
    <3> QED BY <2>1, <3>1 DEF After, Now, Situation, to, on, At
  <2>2. CASE At(w, "mayRemove")
    <3>1. \/ Now(w, key)' = on
          \/ row = "there" /\ Now(w, key)' = to(Aged(held[w]), "absent")
      BY <1>3, <1>4, <1>8, <2>2 DEF RemoveRow, At, Present
    <3> QED BY <2>2, <3>1 DEF After, Now, Situation, to, on, At
  <2>3. CASE At(w, "softRemove")
    <3>1. Now(w, key)' = IF row = "there" THEN to(Aged(held[w]), "hidden") ELSE on
      BY <1>3, <1>4, <1>8, <2>3 DEF RemoveRow, At, Present
    <3> QED BY <2>3, <3>1 DEF After, Now, Situation, to, on, At
  <2> QED BY <1>8, <2>1, <2>2, <2>3 DEF RemoveRow
<1>9. CASE RestoreRow(w)
  <2>1. /\ rest[w] # <<>> /\ Head(rest[w]).do = "restore"
        /\ Now(w, key)' = IF row = "hidden" THEN to(Aged(held[w]), "there") ELSE on
    BY <1>3, <1>4, <1>9 DEF RestoreRow, At
  <2> QED BY <2>1 DEF After, Now, Situation, to, on
<1> QED BY <1>5, <1>6, <1>7, <1>8, <1>9

\* A Redis command, taken or refused.
LEMMA CommandAfter ==
    ASSUME TypeInv, NEW w \in Workers, NEW key \in subject.keys, Store(w) \/ Delete(w)
    PROVE  Now(w, key)' \in After(subject, Now(w, key))
<1> DEFINE copies == IF \/ Head(rest[w]).do = "save"
                        \/ Head(rest[w]).do = "saveOrForget" /\ held[w].found
                     THEN {held[w]} ELSE {}
<1>1. /\ rest[w] # <<>> /\ Head(rest[w]).do \in {"save", "saveOrForget", "forget"}
      /\ Put(w, copies) \/ Refused(w)
  BY DEF Store, Delete, At
<1>2. /\ rest'[w] = Tail(rest[w]) /\ held'[w] = held[w]
      /\ method'[w] = method[w] /\ row' = row
  BY DEF Store, Delete, GoOn, TypeInv, Functions4
<1>3. method[w] # Idle
  BY <1>1, Busy
<1>4. CASE Put(w, copies)
  <2>1. entry'[key] = IF Head(rest[w]).key \in subject.keys THEN copies ELSE entry[key]
    <3>1. Head(rest[w]).key \in subject.keys => Head(rest[w]).key = key
      BY SubjectViews
    <3> HIDE DEF copies
    <3> QED BY <1>4, <3>1 DEF Put, This, TypeInv, TypeOK
  <2>2. standing'[w] = standing[w]
    BY <1>4 DEF Put, Joined
  <2> QED BY <1>1, <1>2, <2>1, <2>2 DEF After, Now, Situation
<1>5. CASE Refused(w)
  <2>1. standing'[w] = IF Served(subject, method[w]).writes THEN "disturbed" ELSE standing[w]
    BY <1>3, <1>5 DEF Refused, Writing, Methods, Served, TypeInv, Functions4
  <2>2. entry' = entry
    BY <1>5 DEF Refused
  <2> QED BY <1>1, <1>2, <2>1, <2>2 DEF After, Now, Situation
<1> QED BY <1>1, <1>4, <1>5

\* Every step of a request that does not end it is one it could take by itself.
LEMMA StepAfter ==
    ASSUME TypeInv, NEW w \in Workers, NEW key \in subject.keys, Serve(w),
           ~Throw(w), ~Respond(w)
    PROVE  Now(w, key)' \in After(subject, Now(w, key))
  BY QueryAfter, CheckAfter, ChooseAfter, TakeNoneAfter, LookupAfter, StatementAfter,
     CommandAfter DEF Serve

-----------------------------------------------------------------------------
(* Company: what the step of a request does to the others.                 *)

\* A request that others leave undisturbed finds everything as it was.
Undone(v) ==
    /\ method'[v] = method[v] /\ rest'[v] = rest[v]
    /\ held'[v] \in {held[v], Aged(held[v])}
    /\ IF Writing(v)
          THEN \/ standing'[v] = "disturbed"
               \/ UNCHANGED <<row, entry>> /\ held'[v] = held[v] /\ standing'[v] = standing[v]
          ELSE standing'[v] = standing[v]

LEMMA StepUndone ==
    ASSUME TypeInv, NEW w \in Workers, Begin(w) \/ Serve(w) \/ Abandon(w),
           NEW v \in Workers, v # w
    PROVE  Undone(v)
<1>1. ASSUME UNCHANGED <<row, entry>>, standing'[v] = standing[v], held'[v] = held[v],
             method'[v] = method[v], rest'[v] = rest[v]
      PROVE  Undone(v)
  BY <1>1 DEF Undone
<1>2. CASE Begin(w)
  BY <1>1, <1>2 DEF Begin, TypeInv, Functions4
<1>3. CASE Throw(w) \/ Respond(w) \/ Abandon(w)
  <2>1. End(w)
    BY <1>3 DEF Throw, Respond, Abandon
  <2> QED BY <1>1, <2>1 DEF End, Hold, TypeInv, Functions4
<1>4. CASE Query(w) \/ Check(w) \/ Choose(w) \/ TakeNone(w) \/ Lookup(w)
  <2>1. UNCHANGED <<row, entry, standing, method>>
    BY <1>4 DEF Query, Check, Choose, TakeNone, Lookup
  <2>2. \/ GoOn(w) \/ Enter(w, This(w).steps)
    BY <1>4 DEF Query, Check, Choose, TakeNone, Lookup
  <2>3. held' = held \/ \E copy : Hold(w, copy)
    BY <1>4 DEF Query, Check, Choose, TakeNone, Lookup
  <2>4. rest'[v] = rest[v]
    BY <2>2 DEF GoOn, Enter, TypeInv, Functions4
  <2>5. held'[v] = held[v]
    BY <2>3 DEF Hold, TypeInv, Functions4
  <2> QED BY <1>1, <2>1, <2>4, <2>5
<1>5. CASE \/ InsertRow(w) \/ UpdateRow(w) \/ UpsertRow(w) \/ RemoveRow(w)
           \/ RestoreRow(w)
  <2>1. GoOn(w) /\ UNCHANGED <<subject, method>>
    BY <1>5 DEF InsertRow, UpdateRow, UpsertRow, RemoveRow, RestoreRow
  <2>2. rest'[v] = rest[v] /\ method'[v] = method[v]
    BY <2>1 DEF GoOn, TypeInv, Functions4
  <2>3. Matches(w) \/ \E newRow, copy : Alter(w, newRow, copy)
    BY <1>5 DEF InsertRow, UpdateRow, UpsertRow, RemoveRow, RestoreRow, Change
  <2>4. CASE Matches(w)
    BY <1>1, <2>2, <2>4 DEF Matches
  <2>5. ASSUME NEW newRow, NEW copy, Alter(w, newRow, copy) PROVE Undone(v)
    <3>1. held'[v] = Aged(held[v])
      BY <2>5 DEF Alter
    <3>2. standing'[v] = IF Writing(v) THEN "disturbed" ELSE standing[v]
      BY <2>5 DEF Alter, Joined
    <3> QED BY <2>2, <3>1, <3>2 DEF Undone
  <2> QED BY <2>3, <2>4, <2>5
<1>6. CASE Store(w) \/ Delete(w)
  <2>1. GoOn(w) /\ UNCHANGED <<subject, row, method, held>>
    BY <1>6 DEF Store, Delete
  <2>2. rest'[v] = rest[v]
    BY <2>1 DEF GoOn, TypeInv, Functions4
  <2>3. Refused(w) \/ \E copies : Put(w, copies)
    BY <1>6 DEF Store, Delete
  <2>4. CASE Refused(w)
    BY <1>1, <2>1, <2>2, <2>4 DEF Refused, TypeInv, Functions4
  <2>5. ASSUME NEW copies, Put(w, copies) PROVE Undone(v)
    <3>1. \/ UNCHANGED <<entry, standing>>
          \/ standing' = Joined(w)
      BY <2>5 DEF Put
    <3>2. CASE UNCHANGED <<entry, standing>>
      BY <1>1, <2>1, <2>2, <3>2
    <3>3. CASE standing' = Joined(w)
      <4>1. standing'[v] = IF Writing(v) THEN "disturbed" ELSE standing[v]
        BY <3>3 DEF Joined
      <4> QED BY <2>1, <2>2, <4>1 DEF Undone
    <3> QED BY <3>1, <3>2, <3>3
  <2> QED BY <2>3, <2>4, <2>5
<1> QED BY <1>2, <1>3, <1>4, <1>5, <1>6 DEF Serve

-----------------------------------------------------------------------------
(* The inductive invariant behind the last three theorems: however many    *)
(* requests are served at a time, each stays in the situations ServedAlone *)
(* has worked out for it.                                                  *)

\* A request that writes and that nobody has disturbed is where it could be if it
\* were the only one; one that is disturbed does and holds nothing that its method
\* cannot; one that only reads changes nothing.
AsAlone(w) ==
    method[w] # Idle =>
        /\ Own(method[w], rest[w], held[w]) \in View(subject).anyhow.own
        /\ IF Writing(w)
              THEN \/ standing[w] = "disturbed"
                   \/ \A key \in subject.keys : Now(w, key) \in View(subject).alone
              ELSE standing[w] = "alone"

\* What all of them find in table and Redis is what requests can leave there.
Found ==
    /\ row \in View(subject).anyhow.rows
    /\ \A key \in subject.keys : entry[key] \in View(subject).anyhow.stored

AloneInv == TypeInv /\ Found /\ \A w \in Workers : AsAlone(w)

LEMMA InitAlone == Init /\ TypeInv => AloneInv
<1> SUFFICES ASSUME Init, TypeInv PROVE AloneInv
  OBVIOUS
<1>1. {"absent", "there"} \subseteq View(subject).anyhow.rows /\ {} \in View(subject).anyhow.stored
  BY SubjectViews DEF AnyhowSettled
<1>2. Found
  BY <1>1 DEF Init, Found
<1>3. \A w \in Workers : AsAlone(w)
  BY DEF Init, AsAlone
<1> QED BY <1>2, <1>3 DEF AloneInv

\* The others, after the step of a request.
LEMMA OthersAlone ==
    ASSUME AloneInv, NEW v \in Workers, Undone(v), UNCHANGED subject
    PROVE  AsAlone(v)'
<1> SUFFICES ASSUME method'[v] # Idle PROVE AsAlone(v)'
  BY DEF AsAlone
<1>1. method[v] # Idle /\ AsAlone(v)
  BY DEF Undone, AloneInv
<1>2. Own(method'[v], rest'[v], held'[v]) \in View(subject).anyhow.own
  <2>1. Own(method[v], rest[v], held[v]) \in View(subject).anyhow.own
    BY <1>1 DEF AsAlone
  <2>2. Own(method[v], rest[v], Aged(held[v])) \in View(subject).anyhow.own
    <3>1. AnyhowSettled(subject, View(subject).anyhow)
      BY SubjectViews DEF AloneInv
    <3> QED BY <2>1, <3>1 DEF AnyhowSettled, Own
  <2> QED BY <2>1, <2>2 DEF Undone
<1>3. Writing(v)' = Writing(v)
  BY DEF Undone, Writing, Methods
<1>4. CASE Writing(v)
  <2>1. CASE standing'[v] = "disturbed"
    BY <1>2, <1>3, <1>4, <2>1 DEF AsAlone
  <2>2. CASE /\ UNCHANGED <<row, entry>> /\ held'[v] = held[v]
             /\ standing'[v] = standing[v]
    <3>1. \A key \in subject.keys : Now(v, key)' = Now(v, key)
      BY <2>2 DEF Undone, Now
    <3> QED BY <1>1, <1>2, <1>3, <1>4, <2>2, <3>1 DEF AsAlone
  <2> QED BY <1>4, <2>1, <2>2 DEF Undone
<1>5. CASE ~Writing(v)
  BY <1>1, <1>2, <1>3, <1>5 DEF AsAlone, Undone
<1> QED BY <1>4, <1>5

LEMMA BeginAlone ==
    ASSUME AloneInv, NEW w \in Workers, Begin(w)
    PROVE  Found' /\ AsAlone(w)'
<1>1. PICK m \in Relevant[subject] :
         /\ method' = [method EXCEPT ![w] = m]
         /\ rest' = [rest EXCEPT ![w] = Due(subject.keys, Methods[m].steps)]
  BY DEF Begin
<1>2. method[w] = Idle /\ UNCHANGED <<subject, row, entry, held, standing>>
  BY DEF Begin
<1>3. m \in DOMAIN Services[subject.service]
  BY <1>1 DEF AloneInv, TypeInv, TypeOK, Relevant
<1>4. /\ method'[w] = m /\ rest'[w] = Due(subject.keys, Served(subject, m).steps)
      /\ held'[w] = NoCopy /\ standing'[w] = "alone"
  BY <1>1, <1>2 DEF AloneInv, TypeInv, TypeOK, Functions4, Methods, Served
<1>5. Found'
  BY <1>2 DEF AloneInv, Found
<1>6. Own(m, rest'[w], NoCopy) = Start(subject, m)
  BY <1>4 DEF Start
<1>7. Start(subject, m) \in View(subject).anyhow.own
  BY <1>3, SubjectViews DEF AloneInv, AnyhowSettled
<1>8. Writing(w)' => Served(subject, m).writes
  BY <1>2, <1>4 DEF Writing, Methods, Served
<1>9. ASSUME Served(subject, m).writes, NEW key \in subject.keys
      PROVE  Now(w, key)' \in View(subject).alone
  <2>1. Now(w, key)' = Amid(Start(subject, m), row, entry[key], "alone")
    BY <1>2, <1>4 DEF Now, Amid, Start, Own
  <2>2. row \in View(subject).anyhow.rows /\ entry[key] \in View(subject).anyhow.stored
    BY DEF AloneInv, Found
  <2>3. Now(w, key)' \in Begun(subject, View(subject).anyhow)
    BY <1>3, <1>9, <2>1, <2>2 DEF Begun
  <2> QED BY <2>3, SubjectViews DEF AloneInv, AloneSettled
<1> QED BY <1>2, <1>4, <1>5, <1>6, <1>7, <1>8, <1>9 DEF AsAlone

LEMMA EndAlone ==
    ASSUME AloneInv, NEW w \in Workers, End(w)
    PROVE  Found' /\ AsAlone(w)'
<1>1. method'[w] = Idle /\ UNCHANGED <<subject, row, entry>>
  BY DEF End, AloneInv, TypeInv, Functions4
<1> QED BY <1>1 DEF AloneInv, Found, AsAlone

LEMMA ServeAlone ==
    ASSUME AloneInv, NEW w \in Workers, Serve(w), ~Throw(w), ~Respond(w)
    PROVE  Found' /\ AsAlone(w)'
<1>1. PICK key : subject.keys = {key}
  BY SubjectViews DEF AloneInv
<1>2. /\ AnyhowSettled(subject, View(subject).anyhow)
      /\ AloneSettled(subject, Begun(subject, View(subject).anyhow), View(subject).alone)
  BY SubjectViews DEF AloneInv
<1>3. rest[w] # <<>> /\ UNCHANGED <<subject, method>>
  BY DEF Serve, Query, Check, Choose, TakeNone, Lookup, InsertRow, UpdateRow, UpsertRow,
         RemoveRow, RestoreRow, Store, Delete, At
<1>4. method[w] # Idle /\ AsAlone(w) /\ TypeInv
  BY <1>3, Busy DEF AloneInv
<1>5. Now(w, key)' \in After(subject, Now(w, key))
  BY <1>1, StepAfter DEF AloneInv
<1> DEFINE o == Own(method[w], rest[w], held[w])
           y == Situation(method'[w], rest'[w], held'[w], row', entry'[key], standing'[w])
<1>6. Now(w, key)' = y
  BY DEF Now
<1>7. standing[w] \in Standings(subject, method[w])
  <2>1. CASE Served(subject, method[w]).writes
    BY <1>4, <2>1 DEF Standings, TypeInv, TypeOK
  <2>2. CASE ~Served(subject, method[w]).writes
    <3>1. ~Writing(w)
      BY <2>2 DEF Writing, Methods, Served
    <3> QED BY <1>4, <2>2, <3>1 DEF Standings, AsAlone
  <2> QED BY <2>1, <2>2
<1>8. Now(w, key) = Amid(o, row, entry[key], standing[w])
  BY DEF Now, Amid, Own
<1>9. /\ Own(y.method, y.rest, y.held) \in View(subject).anyhow.own
      /\ y.row \in View(subject).anyhow.rows /\ y.stored \in View(subject).anyhow.stored
      /\ y.standing \in Standings(subject, o.method)
      /\ standing[w] = "disturbed" => y.standing = "disturbed"
  <2>1. o \in View(subject).anyhow.own
    BY <1>4 DEF AsAlone
  <2>2. row \in View(subject).anyhow.rows /\ entry[key] \in View(subject).anyhow.stored
    BY <1>1 DEF AloneInv, Found
  <2>3. y \in After(subject, Amid(o, row, entry[key], standing[w]))
    BY <1>5, <1>6, <1>8
  <2>4. standing[w] \in Standings(subject, o.method)
    BY <1>7 DEF Own
  <2> HIDE DEF o, y
  <2> QED BY <1>2, <2>1, <2>2, <2>3, <2>4 DEF AnyhowSettled
<1>10. /\ Own(method'[w], rest'[w], held'[w]) \in View(subject).anyhow.own
       /\ row' \in View(subject).anyhow.rows /\ entry'[key] \in View(subject).anyhow.stored
       /\ standing'[w] \in Standings(subject, method[w])
       /\ standing[w] = "disturbed" => standing'[w] = "disturbed"
  BY <1>9 DEF Situation, Own
<1>11. Found'
  BY <1>1, <1>3, <1>10 DEF Found
<1>12. Writing(w)' <=> Writing(w)
  BY <1>3, <1>4 DEF Writing, Methods
<1>13. ~Writing(w) => standing'[w] = "alone"
  BY <1>4, <1>10 DEF Writing, Methods, Served, Standings
<1>14. ASSUME Writing(w), standing'[w] # "disturbed"
       PROVE  Now(w, key)' \in View(subject).alone
  <2>1. Now(w, key) \in View(subject).alone
    BY <1>1, <1>4, <1>10, <1>14 DEF AsAlone
  <2>2. Undisturbed(y) => y \in View(subject).alone
    <3> HIDE DEF y
    <3> QED BY <1>2, <1>5, <1>6, <2>1 DEF AloneSettled
  <2> QED BY <1>6, <1>14, <2>2 DEF Undisturbed, Situation
<1>15. AsAlone(w)'
  BY <1>1, <1>3, <1>10, <1>12, <1>13, <1>14 DEF AsAlone
<1> QED BY <1>11, <1>15

LEMMA ExpireAlone ==
    ASSUME AloneInv, NEW key \in subject.keys, Expire(key)
    PROVE  Found' /\ \A v \in Workers : AsAlone(v)'
<1>1. subject.keys = {key}
  BY SubjectViews DEF AloneInv
<1>2. /\ AnyhowSettled(subject, View(subject).anyhow)
      /\ AloneSettled(subject, Begun(subject, View(subject).anyhow), View(subject).alone)
  BY SubjectViews DEF AloneInv
<1>3. UNCHANGED <<subject, row, method, rest, held, standing>> /\ entry'[key] = {}
  BY DEF Expire, AloneInv, TypeInv, TypeOK
<1>4. Found'
  BY <1>1, <1>2, <1>3 DEF AloneInv, Found, AnyhowSettled
<1>5. ASSUME NEW v \in Workers PROVE AsAlone(v)'
  <2>1. Now(v, key)' = Expired(Now(v, key))
    BY <1>3 DEF Now, Situation, Expired
  <2>2. Now(v, key) \in View(subject).alone => Now(v, key)' \in View(subject).alone
    BY <1>2, <2>1 DEF AloneSettled
  <2>3. AsAlone(v)
    BY DEF AloneInv
  <2> QED BY <1>1, <1>3, <2>2, <2>3 DEF AsAlone, Writing, Methods
<1> QED BY <1>4, <1>5

LEMMA NextAlone == AloneInv /\ [Next]_vars => AloneInv'
<1> SUFFICES ASSUME AloneInv, [Next]_vars PROVE AloneInv'
  OBVIOUS
<1>1. TypeInv'
  BY NextType DEF AloneInv
<1>2. CASE UNCHANGED vars
  <2>1. Found' /\ \A v \in Workers : AsAlone(v)'
    BY <1>2 DEF vars, AloneInv, Found, AsAlone, Writing, Methods, Now
  <2> QED BY <1>1, <2>1 DEF AloneInv
<1>3. ASSUME NEW key \in subject.keys, Expire(key) PROVE AloneInv'
  BY <1>1, <1>3, ExpireAlone DEF AloneInv
<1>4. ASSUME NEW w \in Workers, Begin(w) \/ Serve(w) \/ Abandon(w) PROVE AloneInv'
  <2>1. UNCHANGED subject
    BY <1>4 DEF Begin, Abandon, Serve, Throw, Respond, End, Query, Check, Choose, TakeNone,
                Lookup, InsertRow, UpdateRow, UpsertRow, RemoveRow, RestoreRow, Store, Delete
  <2>2. \A v \in Workers \ {w} : AsAlone(v)'
    BY <1>4, <2>1, StepUndone, OthersAlone DEF AloneInv
  <2>3. Found' /\ AsAlone(w)'
    <3>1. CASE Begin(w)
      BY <3>1, BeginAlone
    <3>2. CASE Throw(w) \/ Respond(w) \/ Abandon(w)
      BY <3>2, EndAlone DEF Throw, Respond, Abandon
    <3>3. CASE Serve(w) /\ ~Throw(w) /\ ~Respond(w)
      BY <3>3, ServeAlone
    <3> QED BY <1>4, <3>1, <3>2, <3>3
  <2> QED BY <1>1, <2>2, <2>3 DEF AloneInv
<1> QED BY <1>2, <1>3, <1>4 DEF Next

\* A request that has changed the row and that nobody disturbed is where a request alone can
\* be.
LEMMA ChangedAlone ==
    ASSUME AloneInv, NEW w \in Workers, standing[w] = "changed"
    PROVE  /\ method[w] # Idle /\ AloneRight(subject, View(subject).alone)
           /\ \A key \in subject.keys : Now(w, key) \in View(subject).alone
           /\ \E key : subject.keys = {key}
<1>1. method[w] # Idle
  BY DEF AloneInv, TypeInv, TypeOK
<1> QED BY <1>1, SubjectViews DEF AloneInv, AsAlone

\* A request that answers an error, and that nobody has disturbed, has not changed the row, but
\* for the five methods listed, whatever services run and however many requests at a time.
THEOREM NeverErrorAfterWriting == Spec => []NoErrorAfterWriting
<1>1. Init => AloneInv
  BY InitType, InitAlone
<1>2. AloneInv => NoErrorAfterWriting
  <2> SUFFICES ASSUME AloneInv, NEW w \in Workers, standing[w] = "changed", Throws(w)
               PROVE  method[w] \in ThrowsAfterWriting
    BY DEF NoErrorAfterWriting
  <2>1. PICK key : subject.keys = {key}
    BY ChangedAlone
  <2>2. Throwing(Now(w, key))
    BY DEF Throws, Throwing, Now, Situation, At, This, Present
  <2>3. Now(w, key).standing = "changed" /\ Now(w, key).method = method[w]
    BY DEF Now, Situation
  <2> QED BY <2>1, <2>2, <2>3, ChangedAlone DEF AloneRight
<1> QED BY <1>1, <1>2, NextAlone, PTL DEF Spec

\* An update that nobody has disturbed answers the row as it has written it, but for the seven
\* listed, whatever services run and however many requests at a time.
THEOREM AlwaysAnswersAsWritten == Spec => []AnswersAsWritten
<1>1. Init => AloneInv
  BY InitType, InitAlone
<1>2. AloneInv => AnswersAsWritten
  <2> SUFFICES ASSUME AloneInv, NEW w \in Workers, Done(w), standing[w] = "changed",
                      Methods[method[w]].answers, method[w] \notin AnswersOld
               PROVE  held[w].found /\ held[w].current
    BY DEF AnswersAsWritten
  <2>1. PICK key : subject.keys = {key}
    BY ChangedAlone
  <2>2. /\ Now(w, key).standing = "changed" /\ Now(w, key).method = method[w]
        /\ Now(w, key).rest = <<>> /\ Now(w, key).held = held[w]
    BY DEF Now, Situation, Done
  <2>3. Served(subject, method[w]).answers
    BY DEF Served, Methods
  <2> QED BY <2>1, <2>2, <2>3, ChangedAlone DEF AloneRight
<1> QED BY <1>1, <1>2, NextAlone, PTL DEF Spec

\* A request that has changed the row, and that nobody has disturbed, leaves no old copy of it
\* in Redis, but under the keys listed, whatever services run and however many requests at a
\* time.
THEOREM WritesAlwaysRefresh == Spec => []WritesRefresh
<1>1. Init => AloneInv
  BY InitType, InitAlone
<1>2. AloneInv => WritesRefresh
  <2> SUFFICES ASSUME AloneInv, NEW w \in Workers, Done(w), standing[w] = "changed",
                      NEW key \in subject.keys \ Left(subject.service),
                      <<method[w], key>> \notin StaleAfter
               PROVE  \A copy \in entry[key] : copy.current
    BY DEF WritesRefresh
  <2>1. /\ Now(w, key).standing = "changed" /\ Now(w, key).method = method[w]
        /\ Now(w, key).rest = <<>> /\ Now(w, key).stored = entry[key]
    BY DEF Now, Situation, Done
  <2> QED BY <2>1, ChangedAlone DEF AloneRight
<1> QED BY <1>1, <1>2, NextAlone, PTL DEF Spec

=============================================================================
