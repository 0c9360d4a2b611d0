---------------------------- MODULE ServedAlone ----------------------------
(***************************************************************************)
(* What a request of CachedServices does if nobody comes between.  After   *)
(* gives the situations its next step may lead to; following it from where *)
(* each method begins gives those a request may be in                      *)
(*   - alone: nobody else changes the row or what Redis holds, but for     *)
(*     expiry, and Redis takes its commands;                               *)
(*   - anyhow: whenever it goes on, row and entry may be anything requests *)
(*     leave there.                                                        *)
(* Neither depends on a constant: TLC works both out, for every method of  *)
(* the services and every key, and evaluates MethodsAssumption on them.    *)
(* That they tell what happens however many requests are served at a time  *)
(* is an invariant of the proofs (AloneInv of CachedServicesProofs).       *)
(***************************************************************************)
EXTENDS CachedServices

EverySubject == UNION {[service : {s}, keys : KeySets(s)] : s \in DOMAIN Services}

Served(x, m) == Services[x.service][m]

-----------------------------------------------------------------------------
\* What a request has still to do and holds, then also the row, what Redis stores under the
\* key of the subject and how the request stands.
Own(m, steps, copy) == [method |-> m, rest |-> steps, held |-> copy]

Situation(m, steps, copy, r, stored, stands) ==
    [method |-> m, rest |-> steps, held |-> copy, row |-> r, stored |-> stored,
     standing |-> stands]

\* The situations the next step may lead to, none if it throws: the steps of CachedServices,
\* for one request.
After(x, s) ==
    LET t == Head(s.rest)
        later == Tail(s.rest)
        there == s.row = "there"
        to(steps, copy) == Situation(s.method, steps, copy, s.row, s.stored, s.standing)
        on == to(later, s.held)
        in == to(Due(x.keys, t.steps) \o later, s.held)
        altered(r, copy) ==
            Situation(s.method, later, copy, r, {Aged(c) : c \in s.stored},
                      IF s.standing = "alone" THEN "changed" ELSE s.standing)
        changed(r) == altered(r, Aged(s.held))
        put(copies) ==
            {Situation(s.method, later, s.held, s.row,
                       IF t.key \in x.keys THEN copies ELSE s.stored, s.standing),
             Situation(s.method, later, s.held, s.row, s.stored,
                       IF Served(x, s.method).writes THEN "disturbed" ELSE s.standing)}
    IN
    IF s.rest = <<>> THEN {} ELSE
    CASE t.do = "find" ->
            IF t.must /\ ~there THEN {}
            ELSE {to(later, [found |-> there, full |-> there /\ t.full, current |-> TRUE])}
      [] t.do = "exists" -> IF there THEN {on} ELSE {}
      [] t.do = "needFound" -> IF s.held.found THEN {on} ELSE {}
      [] t.do = "needRelations" -> IF s.held.full THEN {on} ELSE {}
      [] t.do = "noRows" -> {to(later, [NoCopy EXCEPT !.current = ~there])}
      [] t.do = "ifThere" -> IF there THEN {in} ELSE {on}
      [] t.do = "ifFound" -> IF s.held.found THEN {in} ELSE {on}
      [] t.do = "ifAbsent" -> IF s.held.found THEN {on} ELSE {in}
      [] t.do = "maybe" -> {in, on}
      [] t.do = "insert" -> IF s.row = "absent" THEN {altered("there", Written)} ELSE {}
      [] t.do = "write" -> IF there THEN {changed("there")} ELSE {on}
      [] t.do \in {"upsert", "saveRow"} -> {changed("there")}
      [] t.do = "remove" -> IF s.row = "absent" THEN {on} ELSE {changed("absent")}
      [] t.do = "mayRemove" -> {on} \cup IF there THEN {changed("absent")} ELSE {}
      [] t.do = "softRemove" -> IF there THEN {changed("hidden")} ELSE {on}
      [] t.do = "restore" -> IF s.row = "hidden" THEN {changed("there")} ELSE {on}
      [] t.do = "lookup" ->
            {in} \cup IF t.key \in x.keys THEN {to(later, c) : c \in s.stored} ELSE {}
      [] t.do = "save" -> put({s.held})
      [] t.do = "saveOrForget" -> put(IF s.held.found THEN {s.held} ELSE {})
      [] t.do = "forget" -> put({})
      [] OTHER -> {}

\* Whether the next step throws.
Throwing(s) ==
    /\ s.rest # <<>>
    /\ LET t == Head(s.rest) IN
       \/ t.do = "find" /\ t.must /\ s.row # "there"
       \/ t.do = "exists" /\ s.row # "there"
       \/ t.do = "insert" /\ s.row # "absent"
       \/ t.do = "needFound" /\ ~s.held.found
       \/ t.do = "needRelations" /\ ~s.held.full
       \/ t.do = "fail"

-----------------------------------------------------------------------------
(* Anyhow: what requests have to do and hold (own), the rows they find,    *)
(* what Redis may store.                                                   *)

Start(x, m) == Own(m, Due(x.keys, Served(x, m).steps), NoCopy)

AtFirst(x) ==
    [own |-> {Start(x, m) : m \in DOMAIN Services[x.service]},
     rows |-> {"absent", "there"}, stored |-> {{}}]

Standings(x, m) ==
    IF Served(x, m).writes THEN {"alone", "changed", "disturbed"} ELSE {"alone"}

Amid(o, r, stored, stands) == Situation(o.method, o.rest, o.held, r, stored, stands)

\* The situations one step later.
Onward(x, v) ==
    UNION {UNION {After(x, Amid(o, r, stored, stands)) :
                    r \in v.rows, stored \in v.stored, stands \in Standings(x, o.method)} :
             o \in v.own}

\* What requests hold and Redis stores may grow old.
Older(v) ==
    [own |-> v.own \cup {Own(o.method, o.rest, Aged(o.held)) : o \in v.own},
     rows |-> v.rows,
     stored |-> v.stored \cup {{Aged(c) : c \in copies} : copies \in v.stored}]

Joint(v, next) ==
    [own |-> v.own \cup {Own(y.method, y.rest, y.held) : y \in next},
     rows |-> v.rows \cup {y.row : y \in next},
     stored |-> v.stored \cup {y.stored : y \in next}]

\* One step further, by any request.
Further(x, v) == Older(Joint(v, Onward(x, v)))

\* Rounds enough to come to an end: MethodsAssumption is false where they are not.
Rounds == 40

Round(last, now) == [now |-> now, done |-> now = last.now]

Advance(x, last) ==
    IF last.done THEN last ELSE Round(last, Further(x, last.now))

Anyhow(x) ==
    LET round[n \in 0..Rounds] ==
          IF n = 0 THEN [now |-> AtFirst(x), done |-> FALSE] ELSE Advance(x, round[n - 1])
    IN  round[Rounds].now

\* These are all: any step, from any row and with anything stored, leads to one of them, and
\* a request that only reads changes nothing.
AnyhowSettled(x, v) ==
    /\ {"absent", "there"} \subseteq v.rows /\ {} \in v.stored
    /\ \A m \in DOMAIN Services[x.service] : Start(x, m) \in v.own
    /\ \A copies \in v.stored : {Aged(c) : c \in copies} \in v.stored
    /\ \A o \in v.own :
          /\ Own(o.method, o.rest, Aged(o.held)) \in v.own
          /\ \A r \in v.rows, stored \in v.stored, stands \in Standings(x, o.method) :
                \A y \in After(x, Amid(o, r, stored, stands)) :
                   /\ Own(y.method, y.rest, y.held) \in v.own
                   /\ y.row \in v.rows /\ y.stored \in v.stored
                   /\ y.standing \in Standings(x, o.method)
                   /\ stands = "disturbed" => y.standing = "disturbed"

-----------------------------------------------------------------------------
(* Alone: the requests that write, from any row and with anything stored.  *)

Begun(x, v) ==
    {Amid(Start(x, m), r, stored, "alone") :
        m \in {n \in DOMAIN Services[x.service] : Served(x, n).writes},
        r \in v.rows, stored \in v.stored}

Undisturbed(s) == s.standing # "disturbed"
Expired(s) == [s EXCEPT !.stored = {}]

\* The situations known, and those met for the first time.
Met(all, new) == [all |-> all \cup new, new |-> new \ all]

Spread(x, last) ==
    Met(last.all, {y \in UNION {After(x, s) : s \in last.new} : Undisturbed(y)}
                    \cup {Expired(s) : s \in last.new})

Alone(x, v) ==
    LET round[n \in 0..Rounds] ==
          IF n = 0 THEN Met({}, Begun(x, v)) ELSE Spread(x, round[n - 1])
    IN  round[Rounds].all

\* These are all.
AloneSettled(x, begun, alone) ==
    /\ begun \subseteq alone
    /\ \A s \in alone :
          /\ Expired(s) \in alone
          /\ \A y \in After(x, s) : Undisturbed(y) => y \in alone

\* In each of them: no error after a change, but of the methods known for it; at the end of
\* an update the row as written; and no old copy under a key its method refreshes.
AloneRight(x, alone) ==
    \A s \in alone : s.standing = "changed" =>
        /\ Throwing(s) => s.method \in ThrowsAfterWriting
        /\ s.rest = <<>> =>
              /\ Served(x, s.method).answers /\ s.method \notin AnswersOld
                    => s.held.found /\ s.held.current
              /\ \A key \in x.keys \ Left(x.service) :
                    <<s.method, key>> \in StaleAfter \/ \A copy \in s.stored : copy.current

-----------------------------------------------------------------------------
Seen(x, v) == [subject |-> x, anyhow |-> v, alone |-> Alone(x, v)]
Views == {Seen(x, Anyhow(x)) : x \in EverySubject}
View(x) == CHOOSE v \in Views : v.subject = x

\* What the methods do one at a time: a formula without constants or variables, which TLC
\* evaluates over every method of the services, every key, every row and everything that
\* Redis may store.
ASSUME MethodsAssumption ==
    \A x \in EverySubject :
        LET v == View(x) IN
        /\ AnyhowSettled(x, v.anyhow)
        /\ AloneSettled(x, Begun(x, v.anyhow), v.alone)
        /\ AloneRight(x, v.alone)

\* Where a worker is, with regard to one key.
Now(w, key) ==
    Situation(method[w], rest[w], held[w], row, entry[key], standing[w])

=============================================================================
