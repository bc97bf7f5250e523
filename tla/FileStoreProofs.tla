-------------------------- MODULE FileStoreProofs --------------------------
(* Proofs about FileStore, for any requests in flight, any file names and  *)
(* any contents.                                                           *)
EXTENDS FileStore, WellFoundedInduction, TLAPS

PendingPcs == {"change", "fill", "removed", "list", "read", "create", "update"}

(***************************************************************************)
(* What a request is.                                                      *)
(***************************************************************************)

(* The record of a request, by where it is.                                *)
LEMMA RequestType ==
    ASSUME TypeOK, NEW r \in Requests
    PROVE  /\ At(r, "idle") => req[r] = Idle
           /\ ~At(r, "idle") => /\ req[r].cat \in Categories
                                /\ req[r].clean \in BOOLEAN
           /\ At(r, "ok") => req[r] \in Done(req[r].cat)
           /\ ~At(r, "idle") /\ ~At(r, "ok") => req[r] \in Pending(req[r].cat)
<1>1. CASE req[r] = Idle
      BY <1>1 DEF Idle, At
<1>2. ASSUME NEW c \in Categories, req[r] \in Pending(c) PROVE
           /\ req[r].pc \in PendingPcs /\ req[r].cat = c /\ req[r].clean \in BOOLEAN
      BY <1>2 DEF Pending, PendingPcs
<1>3. ASSUME NEW c \in Categories, req[r] \in Done(c) PROVE
           /\ req[r].pc = "ok" /\ req[r].cat = c /\ req[r].clean \in BOOLEAN
      BY <1>3 DEF Done
<1>4. req[r] = Idle \/ \E c \in Categories : req[r] \in Pending(c) \cup Done(c)
      BY DEF TypeOK
<1>5. QED
      BY <1>1, <1>2, <1>3, <1>4 DEF At, PendingPcs

(* The parts of a pending request.                                         *)
LEMMA PendingParts ==
    ASSUME NEW c \in Categories, NEW p \in Pending(c)
    PROVE  /\ p.pc \in PendingPcs /\ p.cat = c /\ p.name \in Names[c]
           /\ p.content \in Contents \cup {NoFile} /\ p.todo \subseteq Names[c]
           /\ p.data \in Files(c) /\ p.fresh \in BOOLEAN /\ p.clean \in BOOLEAN
BY DEF Pending, PendingPcs

(* A pending request at another place is one.                              *)
LEMMA PendingMoved ==
    ASSUME NEW c \in Categories, NEW p \in Pending(c), NEW l \in PendingPcs
    PROVE  LET q == [p EXCEPT !.pc = l]
           IN  /\ q \in Pending(c)
               /\ q.pc = l /\ q.cat = p.cat /\ q.name = p.name /\ q.content = p.content
               /\ q.todo = p.todo /\ q.data = p.data /\ q.clean = p.clean
BY DEF Pending, PendingPcs

(***************************************************************************)
(* What the invariant says of a request in flight.                         *)
(***************************************************************************)

(* Every request in flight meets a restored directory; in an orderly       *)
(* category the directory and the ConfigMap hold what is allowed, and the  *)
(* request is alone.                                                       *)
LEMMA InFlightFacts ==
    ASSUME Inv, NEW r \in Requests, ~At(r, "idle")
    PROVE  /\ req[r].cat \in Categories
           /\ phase = Serving
           /\ r \in InFlight(req[r].cat)
           /\ req[r].clean => Aligned(r)
           /\ orderly[req[r].cat] =>
                 /\ req[r].clean
                 /\ ~At(r, "ok") => Leaves(r) \subseteq allowed[req[r].cat][req[r].name]
                 /\ \A n \in Names[req[r].cat] :
                       /\ disk[req[r].cat][n] \in allowed[req[r].cat][n]
                       /\ Data(req[r].cat)[n] \in allowed[req[r].cat][n]
<1>1. req[r].cat \in Categories
      BY RequestType DEF Inv
<1>2. phase = Serving
      BY DEF Inv, DirectoryAllowed
<1>3. \A c \in Categories : ~Unrestored(c)
      BY <1>2 DEF Unrestored, Serving
<1>4. r \in InFlight(req[r].cat)
      BY DEF InFlight
<1>5. QED
      BY <1>1, <1>2, <1>3, <1>4 DEF Inv, CleanUndisturbed, DirectoryAllowed, AnsweredIsDurable

(***************************************************************************)
(* A step of one request.                                                  *)
(***************************************************************************)

(* It stays in its category or ends, and does not become clean again; of   *)
(* the other requests it changes at most where one of the same category    *)
(* is and whether its ConfigMap is the latest.                             *)
StepsAside(r) ==
    /\ phase' = phase
    /\ \A d \in Categories \ {req[r].cat} :
          /\ disk'[d] = disk[d] /\ cm'[d] = cm[d] /\ orderly'[d] = orderly[d]
          /\ orderly[d] => allowed'[d] = allowed[d]
    /\ \A q \in Requests \ {r} :
          /\ req[q].pc = "idle" <=> req'[q].pc = "idle"
          /\ req[q].pc # "idle" => req'[q].cat = req[q].cat /\ req'[q].clean = req[q].clean
          /\ req[q].pc # "idle" /\ req[q].cat # req[r].cat => req'[q] = req[q]
    /\ req'[r].pc # "idle" => req'[r].cat = req[r].cat /\ (req'[r].clean => req[r].clean)

(* What it leaves in its own category is as the invariant says.            *)
LeavesOwn(r, c) ==
    /\ ~At(r, "idle") /\ req[r].clean => Aligned(r)
    /\ orderly[c] =>
          /\ ~At(r, "idle") => req[r].clean
          /\ ~At(r, "idle") /\ ~At(r, "ok") => Leaves(r) \subseteq allowed[c][req[r].name]
          /\ \A n \in Names[c] : disk[c][n] \in allowed[c][n] /\ Data(c)[n] \in allowed[c][n]

(* Then it preserves the invariant: a request that ran alone so far is the *)
(* only one of its category, so that a step of another is elsewhere.       *)
LEMMA RequestStep ==
    ASSUME Inv, TypeOK', NEW r \in Requests, ~At(r, "idle"), NEW c, c = req[r].cat,
           StepsAside(r), LeavesOwn(r, c)', orderly'[c] => orderly[c]
    PROVE  Inv'
<1>1. /\ c \in Categories /\ phase = Serving /\ phase' = Serving
      /\ r \in InFlight(c)
      BY InFlightFacts DEF StepsAside
<1>2. \A d \in Categories : d # c => InFlight(d)' = InFlight(d)
      BY DEF InFlight, At, StepsAside
<1>3. InFlight(c)' \subseteq InFlight(c)
      BY DEF InFlight, At, StepsAside
<1>4. ASSUME NEW q \in Requests, q # r, ~At(q, "idle")'
      PROVE  /\ ~At(q, "idle") /\ q \in InFlight(req[q].cat)
             /\ req'[q].cat = req[q].cat /\ req'[q].clean = req[q].clean
             /\ req[q].cat \in Categories
             /\ req[q].cat # c => req'[q] = req[q]
             /\ req[q].cat = c => ~req[q].clean
  <2>1. /\ ~At(q, "idle") /\ q \in InFlight(req[q].cat)
        /\ req'[q].cat = req[q].cat /\ req'[q].clean = req[q].clean
        /\ req[q].cat # c => req'[q] = req[q]
        BY <1>4 DEF StepsAside, At, InFlight
  <2>2. req[q].cat \in Categories
        BY <2>1, InFlightFacts
  <2>3. ASSUME req[q].cat = c, req[q].clean PROVE FALSE
    <3>1. InFlight(c) = {q}
          BY <2>1, <2>3 DEF Inv, CleanUndisturbed
    <3>2. QED
          BY <3>1, <1>1, <1>4
  <2>4. QED
        BY <2>1, <2>2, <2>3
<1>5. CleanUndisturbed'
  <2> SUFFICES ASSUME NEW q \in Requests, ~At(q, "idle")', req'[q].clean
               PROVE  InFlight(req[q].cat)' = {q} /\ Aligned(q)'
      BY DEF CleanUndisturbed
  <2>1. CASE q = r
    <3>1. req'[r].cat = c /\ req[r].clean
          BY <2>1 DEF StepsAside, At
    <3>2. InFlight(c) = {r}
          BY <3>1 DEF Inv, CleanUndisturbed
    <3>3. r \in InFlight(c)'
          BY <2>1, <3>1 DEF InFlight
    <3>4. QED
          BY <2>1, <3>1, <3>2, <3>3, <1>3 DEF LeavesOwn
  <2>2. CASE q # r
    <3>1. /\ ~At(q, "idle") /\ req'[q] = req[q] /\ req[q].clean
          /\ req[q].cat \in Categories /\ req[q].cat # c
          BY <2>2, <1>4
    <3>2. InFlight(req[q].cat) = {q} /\ Aligned(q)
          BY <3>1 DEF Inv, CleanUndisturbed
    <3>3. InFlight(req[q].cat)' = {q}
          BY <3>1, <3>2, <1>2
    <3>4. disk'[req[q].cat] = disk[req[q].cat] /\ cm'[req[q].cat] = cm[req[q].cat]
          BY <3>1 DEF StepsAside
    <3>5. Aligned(q)'
          BY <3>1, <3>2, <3>4 DEF Aligned, At
    <3>6. QED
          BY <3>3, <3>5
  <2>3. QED
        BY <2>1, <2>2
<1>6. AnsweredIsDurable'
  <2> SUFFICES ASSUME NEW d \in Categories, orderly'[d], NEW n \in Names[d]
               PROVE  Data(d)'[n] \in allowed'[d][n]
      BY DEF AnsweredIsDurable
  <2>1. CASE d = c
        BY <2>1 DEF LeavesOwn
  <2>2. CASE d # c
    <3>1. cm'[d] = cm[d] /\ orderly[d] /\ allowed'[d] = allowed[d]
          BY <2>2 DEF StepsAside
    <3>2. QED
          BY <3>1 DEF Inv, AnsweredIsDurable, Data
  <2>3. QED
        BY <2>1, <2>2
<1>7. DirectoryAllowed'
  <2>1. ASSUME NEW q \in Requests, ~At(q, "idle")', orderly'[req'[q].cat]
        PROVE  /\ req'[q].clean
               /\ ~At(q, "ok")' => Leaves(q)' \subseteq allowed'[req'[q].cat][req'[q].name]
    <3>1. CASE q = r
          BY <2>1, <3>1 DEF LeavesOwn, StepsAside, At
    <3>2. CASE q # r
      <4>1. /\ ~At(q, "idle") /\ req'[q].cat = req[q].cat /\ req'[q].clean = req[q].clean
            /\ req[q].cat \in Categories
            BY <2>1, <3>2, <1>4
      <4>2. orderly[req[q].cat]
            BY <4>1, <2>1 DEF StepsAside
      <4>3. req[q].clean
            BY <4>1, <4>2, InFlightFacts
      <4>4. req[q].cat # c /\ req'[q] = req[q]
            BY <2>1, <3>2, <4>3, <1>4
      <4>5. allowed'[req[q].cat] = allowed[req[q].cat]
            BY <4>1, <4>2, <4>4 DEF StepsAside
      <4>6. ~At(q, "ok") => Leaves(q) \subseteq allowed[req[q].cat][req[q].name]
            BY <4>1, <4>2, InFlightFacts
      <4>7. QED
            BY <4>1, <4>3, <4>4, <4>5, <4>6 DEF Leaves, At
    <3>3. QED
          BY <3>1, <3>2
  <2>2. ASSUME NEW d \in Categories, orderly'[d], NEW n \in Names[d]
        PROVE  \/ disk'[d][n] \in allowed'[d][n]
               \/ Unrestored(d)' /\ disk'[d][n] = NoFile
    <3>1. CASE d = c
          BY <2>2, <3>1 DEF LeavesOwn
    <3>2. CASE d # c
      <4>1. disk'[d] = disk[d] /\ orderly[d] /\ allowed'[d] = allowed[d] /\ phase' = phase
            BY <3>2, <2>2 DEF StepsAside
      <4>2. QED
            BY <4>1 DEF Inv, DirectoryAllowed, Unrestored
    <3>3. QED
          BY <3>1, <3>2
  <2>3. QED
        BY <1>1, <2>1, <2>2 DEF DirectoryAllowed
<1>8. QED
      BY <1>5, <1>6, <1>7 DEF Inv
(* A write changes one file.                                               *)
LEMMA WriteEffect ==
    ASSUME TypeOK, NEW c \in Categories, NEW n \in Names[c], NEW v \in Values, Write(c, n, v)
    PROVE  /\ DOMAIN disk' = Categories
           /\ \A d \in Categories : disk'[d] \in Files(d)
           /\ \A d \in Categories \ {c} : disk'[d] = disk[d]
           /\ disk'[c][n] = v
           /\ \A m \in Names[c] \ {n} : disk'[c][m] = disk[c][m]
<1>1. disk[c] \in [Names[c] -> Values] /\ DOMAIN disk = Categories
      BY DEF TypeOK, Files
<1>2. disk' = [disk EXCEPT ![c] = [disk[c] EXCEPT ![n] = v]]
      BY DEF Write
<1>3. /\ DOMAIN disk' = Categories
      /\ disk'[c] = [disk[c] EXCEPT ![n] = v]
      /\ \A d \in Categories \ {c} : disk'[d] = disk[d]
      BY <1>1, <1>2
<1>4. disk'[c] \in [Names[c] -> Values]
      BY <1>1, <1>3
<1>5. QED
      BY <1>1, <1>3, <1>4 DEF TypeOK, Files

(* A request that only moves keeps its arguments and what it has read.     *)
SameBut(q, p) ==
    /\ q.cat = p.cat /\ q.name = p.name /\ q.content = p.content
    /\ q.todo = p.todo /\ q.data = p.data /\ q.clean = p.clean

(* The types of what a request's step left alone.                          *)
LEMMA TypeStep ==
    ASSUME TypeOK, NEW r \in Requests,
           DOMAIN disk' = Categories, \A d \in Categories : disk'[d] \in Files(d),
           DOMAIN cm' = Categories, \A d \in Categories : cm'[d] \in Files(d) \cup {Missing},
           phase' = phase, DOMAIN req' = Requests,
           req'[r] = Idle \/ \E c \in Categories : req'[r] \in Pending(c) \cup Done(c),
           \A q \in Requests \ {r} :
              req'[q] = req[q] \/ \E c \in Categories : req'[q] \in Pending(c),
           DOMAIN allowed' = Categories,
           \A d \in Categories : allowed'[d] \in [Names[d] -> SUBSET Values],
           orderly' \in [Categories -> BOOLEAN]
    PROVE  TypeOK'
<1>1. \A q \in Requests : req'[q] = Idle \/ \E c \in Categories : req'[q] \in Pending(c) \cup Done(c)
      BY DEF TypeOK
<1>2. QED
      BY <1>1 DEF TypeOK

(* A request with its change or its sync still to do.                      *)
LEMMA PendingFacts ==
    ASSUME Inv, NEW r \in Requests, ~At(r, "idle"), ~At(r, "ok")
    PROVE  \E c \in Categories :
              /\ c = req[r].cat /\ req[r] \in Pending(c) /\ req[r].name \in Names[c]
              /\ req[r].content \in Contents \cup {NoFile} /\ req[r].todo \subseteq Names[c]
              /\ req[r].data \in Files(c) /\ req[r].clean \in BOOLEAN
              /\ disk[c] \in Files(c) /\ cm[c] \in Files(c) \cup {Missing}
              /\ req[r].clean => Aligned(r)
              /\ orderly[c] =>
                    /\ req[r].clean
                    /\ Leaves(r) \subseteq allowed[c][req[r].name]
                    /\ \A n \in Names[c] :
                          disk[c][n] \in allowed[c][n] /\ Data(c)[n] \in allowed[c][n]
<1>1. TypeOK /\ req[r].cat \in Categories /\ req[r] \in Pending(req[r].cat)
      BY RequestType DEF Inv
<1>2. /\ req[r].clean => Aligned(r)
      /\ orderly[req[r].cat] =>
            /\ req[r].clean
            /\ Leaves(r) \subseteq allowed[req[r].cat][req[r].name]
            /\ \A n \in Names[req[r].cat] :
                  /\ disk[req[r].cat][n] \in allowed[req[r].cat][n]
                  /\ Data(req[r].cat)[n] \in allowed[req[r].cat][n]
      BY InFlightFacts
<1>3. /\ disk[req[r].cat] \in Files(req[r].cat)
      /\ cm[req[r].cat] \in Files(req[r].cat) \cup {Missing}
      BY <1>1 DEF TypeOK
<1>4. QED
      BY <1>1, <1>2, <1>3, PendingParts

(* A step that only writes a value the request may leave, and moves on.    *)
LEMMA ChangeInv ==
    ASSUME Inv, NEW r \in Requests, req[r].pc \in {"change", "fill"}, NEW v \in Leaves(r),
           Write(req[r].cat, req[r].name, v), NEW l \in {"fill", "list"},
           l = "list" => v = req[r].content,
           DOMAIN req' = Requests, req'[r] = [req[r] EXCEPT !.pc = l],
           \A q \in Requests \ {r} :
              \/ req'[q] = req[q]
              \/ /\ ~At(q, "idle") /\ req[q] \in Pending(req[q].cat)
                 /\ req[q].cat = req[r].cat /\ req'[q] = [req[q] EXCEPT !.pc = "removed"],
           UNCHANGED <<cm, phase, allowed, orderly>>
    PROVE  Inv'
<1>0. ~At(r, "idle") /\ ~At(r, "ok")
      BY DEF At
<1>1. PICK c \in Categories :
         /\ c = req[r].cat /\ req[r] \in Pending(c) /\ req[r].name \in Names[c]
         /\ req[r].content \in Contents \cup {NoFile}
         /\ req[r].clean => Aligned(r)
         /\ orderly[c] =>
               /\ req[r].clean
               /\ Leaves(r) \subseteq allowed[c][req[r].name]
               /\ \A n \in Names[c] :
                     disk[c][n] \in allowed[c][n] /\ Data(c)[n] \in allowed[c][n]
      BY <1>0, PendingFacts
<1>2. /\ req'[r] \in Pending(c) /\ req'[r].pc = l /\ SameBut(req'[r], req[r])
  <2>1. l \in PendingPcs
        BY DEF PendingPcs
  <2>2. QED
        BY <1>1, <2>1, PendingMoved DEF SameBut
<1>3. ASSUME NEW q \in Requests \ {r}
      PROVE  /\ req'[q] = req[q] \/ \E d \in Categories : req'[q] \in Pending(d)
             /\ req[q].pc = "idle" <=> req'[q].pc = "idle"
             /\ req[q].pc # "idle" => req'[q].cat = req[q].cat /\ req'[q].clean = req[q].clean
             /\ req[q].pc # "idle" /\ req[q].cat # c => req'[q] = req[q]
  <2>1. CASE req'[q] = req[q]
        BY <2>1
  <2>2. CASE /\ ~At(q, "idle") /\ req[q] \in Pending(req[q].cat)
             /\ req[q].cat = req[r].cat /\ req'[q] = [req[q] EXCEPT !.pc = "removed"]
    <3>1. "removed" \in PendingPcs
          BY DEF PendingPcs
    <3>2. /\ req'[q] \in Pending(c) /\ req'[q].pc = "removed"
          /\ req'[q].cat = req[q].cat /\ req'[q].clean = req[q].clean
          BY <2>2, <3>1, <1>1, PendingMoved
    <3>3. QED
          BY <3>2, <2>2, <1>1 DEF At
  <2>3. QED
        BY <2>1, <2>2
<1>4. /\ DOMAIN disk' = Categories
      /\ \A d \in Categories : disk'[d] \in Files(d)
      /\ \A d \in Categories \ {c} : disk'[d] = disk[d]
      /\ disk'[c][req[r].name] = v
      /\ \A m \in Names[c] \ {req[r].name} : disk'[c][m] = disk[c][m]
  <2>1. v \in Values
        BY <1>1 DEF Leaves, Values
  <2>2. QED
        BY <2>1, <1>1, WriteEffect DEF Inv
<1>5. TypeOK'
  <2>1. req'[r] = Idle \/ \E d \in Categories : req'[r] \in Pending(d) \cup Done(d)
        BY <1>1, <1>2
  <2>2. TypeOK
        BY DEF Inv
  <2>3. /\ DOMAIN cm' = Categories /\ \A d \in Categories : cm'[d] \in Files(d) \cup {Missing}
        /\ DOMAIN allowed' = Categories
        /\ \A d \in Categories : allowed'[d] \in [Names[d] -> SUBSET Values]
        /\ orderly' \in [Categories -> BOOLEAN]
        BY <2>2 DEF TypeOK
  <2>4. QED
        BY <2>1, <2>2, <2>3, <1>3, <1>4, TypeStep
<1>6. StepsAside(r)
      BY <1>1, <1>2, <1>3, <1>4 DEF StepsAside, SameBut
<1>7. LeavesOwn(r, c)'
  <2>1. req'[r].clean => Aligned(r)'
    <3>1. req[r].clean => req[r].data = NoFiles(c)
          BY <1>1 DEF Aligned
    <3>2. NoFiles(c)' = NoFiles(c)
          BY DEF NoFiles
    <3>3. QED
          BY <3>1, <3>2, <1>1, <1>2, <1>4 DEF Aligned, At, SameBut
  <2>2. ASSUME orderly[c]
        PROVE  /\ req'[r].clean /\ Leaves(r)' \subseteq allowed'[c][req'[r].name]
               /\ \A n \in Names[c] : /\ disk'[c][n] \in allowed'[c][n]
                                      /\ Data(c)'[n] \in allowed'[c][n]
    <3>1. Leaves(r)' = Leaves(r) /\ Data(c)' = Data(c)
          BY <1>2 DEF Leaves, Data, SameBut
    <3>2. QED
          BY <1>1, <2>2, <3>1, <1>2, <1>4 DEF SameBut
  <2>3. QED
        BY <2>1, <2>2 DEF LeavesOwn
<1>8. QED
      BY <1>0, <1>1, <1>5, <1>6, <1>7, RequestStep

(* os.WriteFile truncates the file.                                        *)
LEMMA TruncateInv ==
    ASSUME Inv, NEW r \in Requests, Truncate(r)
    PROVE  Inv'
<1>1. req[r].pc \in {"change", "fill"} /\ DOMAIN req = Requests
      BY DEF Truncate, At, Inv, TypeOK
<1>2. Empty \in Leaves(r)
      BY DEF Truncate, Leaves
<1>3. /\ DOMAIN req' = Requests /\ req'[r] = [req[r] EXCEPT !.pc = "fill"]
      /\ \A q \in Requests \ {r} : req'[q] = req[q]
      BY <1>1 DEF Truncate, Goto
<1>4. QED
      BY <1>1, <1>2, <1>3, ChangeInv DEF Truncate

(* os.WriteFile writes the content.                                        *)
LEMMA FillInv ==
    ASSUME Inv, NEW r \in Requests, Fill(r)
    PROVE  Inv'
<1>1. req[r].pc \in {"change", "fill"} /\ DOMAIN req = Requests
      BY DEF Fill, At, Inv, TypeOK
<1>2. req[r].content \in Leaves(r)
      BY DEF Leaves
<1>3. /\ DOMAIN req' = Requests /\ req'[r] = [req[r] EXCEPT !.pc = "list"]
      /\ \A q \in Requests \ {r} : req'[q] = req[q]
      BY <1>1 DEF Fill, Goto
<1>4. QED
      BY <1>1, <1>2, <1>3, ChangeInv DEF Fill

(* os.Remove; an upload of the same file that has it open writes to a file *)
(* that is gone.                                                           *)
LEMMA RemoveInv ==
    ASSUME Inv, NEW r \in Requests, Remove(r)
    PROVE  Inv'
<1>1. req[r].pc \in {"change", "fill"} /\ DOMAIN req = Requests
      BY DEF Remove, At, Inv, TypeOK
<1>2. NoFile \in Leaves(r) /\ req[r].content = NoFile
      BY DEF Remove, Leaves
<1>3. DOMAIN req' = Requests /\ req'[r] = [req[r] EXCEPT !.pc = "list"]
      BY DEF Remove
<1>4. ASSUME NEW q \in Requests \ {r}
      PROVE  \/ req'[q] = req[q]
             \/ /\ ~At(q, "idle") /\ req[q] \in Pending(req[q].cat)
                /\ req[q].cat = req[r].cat /\ req'[q] = [req[q] EXCEPT !.pc = "removed"]
  <2>1. \/ req'[q] = req[q]
        \/ At(q, "fill") /\ req[q].cat = req[r].cat /\ req'[q] = [req[q] EXCEPT !.pc = "removed"]
        BY DEF Remove
  <2>2. At(q, "fill") => ~At(q, "idle") /\ req[q] \in Pending(req[q].cat)
        BY RequestType DEF Inv, At
  <2>3. QED
        BY <2>1, <2>2
<1>5. Write(req[r].cat, req[r].name, NoFile) /\ UNCHANGED <<cm, phase, allowed, orderly>>
      BY DEF Remove
<1>6. QED
      BY <1>1, <1>2, <1>3, <1>4, <1>5, ChangeInv
(* The histories after a step.                                             *)
LEMMA RecordEffect ==
    ASSUME NEW ord \in [Categories -> BOOLEAN], NEW promises,
           \A d \in Categories : promises[d] \in [Names[d] -> SUBSET Values],
           Record(ord, promises)
    PROVE  /\ orderly' = ord /\ orderly' \in [Categories -> BOOLEAN]
           /\ DOMAIN allowed' = Categories
           /\ \A d \in Categories : allowed'[d] \in [Names[d] -> SUBSET Values]
           /\ \A d \in Categories : orderly'[d] => allowed'[d] = promises[d]
<1>1. orderly' = ord /\ DOMAIN allowed' = Categories
      BY DEF Record
<1>2. ASSUME NEW d \in Categories
      PROVE  /\ allowed'[d] \in [Names[d] -> SUBSET Values]
             /\ orderly'[d] => allowed'[d] = promises[d]
  <2>1. allowed'[d] = IF ord[d] THEN promises[d] ELSE [n \in Names[d] |-> Values]
        BY DEF Record
  <2>2. [n \in Names[d] |-> Values] \in [Names[d] -> SUBSET Values]
        OBVIOUS
  <2>3. QED
        BY <1>1, <2>1, <2>2
<1>3. QED
      BY <1>1, <1>2

(* A step of the sync before its call of the API: nothing stored changes.  *)
LEMMA SyncInv ==
    ASSUME Inv, NEW r \in Requests, ~At(r, "idle"), ~At(r, "ok"),
           DOMAIN req' = Requests, \A q \in Requests \ {r} : req'[q] = req[q],
           req'[r] \in Pending(req[r].cat),
           req'[r].name = req[r].name, req'[r].content = req[r].content,
           req'[r].clean => req[r].clean /\ Aligned(r)',
           UNCHANGED <<disk, cm, phase>>,
           \/ UNCHANGED <<allowed, orderly>> /\ req'[r].clean = req[r].clean
           \/ Record([orderly EXCEPT ![req[r].cat] = FALSE], allowed)
    PROVE  Inv'
<1>1. PICK c \in Categories :
         /\ c = req[r].cat
         /\ orderly[c] =>
               /\ req[r].clean
               /\ Leaves(r) \subseteq allowed[c][req[r].name]
               /\ \A n \in Names[c] :
                     disk[c][n] \in allowed[c][n] /\ Data(c)[n] \in allowed[c][n]
      BY PendingFacts
<1>2. TypeOK
      BY DEF Inv
<1>3. /\ req'[r].cat = c /\ req'[r].pc \in PendingPcs
      BY <1>1, PendingParts
<1>4. /\ orderly' \in [Categories -> BOOLEAN] /\ DOMAIN allowed' = Categories
      /\ \A d \in Categories : allowed'[d] \in [Names[d] -> SUBSET Values]
      /\ \A d \in Categories \ {c} :
            orderly'[d] = orderly[d] /\ (orderly[d] => allowed'[d] = allowed[d])
      /\ orderly'[c] => orderly[c] /\ allowed'[c] = allowed[c] /\ req'[r].clean = req[r].clean
  <2>1. CASE UNCHANGED <<allowed, orderly>> /\ req'[r].clean = req[r].clean
        BY <2>1, <1>2 DEF TypeOK
  <2>2. CASE Record([orderly EXCEPT ![c] = FALSE], allowed)
    <3> DEFINE ord == [orderly EXCEPT ![c] = FALSE]
    <3>1. /\ ord \in [Categories -> BOOLEAN] /\ ~ord[c]
          /\ \A d \in Categories \ {c} : ord[d] = orderly[d]
          BY <1>2 DEF TypeOK
    <3>2. \A d \in Categories : allowed[d] \in [Names[d] -> SUBSET Values]
          BY <1>2 DEF TypeOK
    <3> HIDE DEF ord
    <3>3. /\ orderly' = ord /\ orderly' \in [Categories -> BOOLEAN]
          /\ DOMAIN allowed' = Categories
          /\ \A d \in Categories : allowed'[d] \in [Names[d] -> SUBSET Values]
          /\ \A d \in Categories : orderly'[d] => allowed'[d] = allowed[d]
      <4>1. Record(ord, allowed)
            BY <2>2 DEF ord
      <4>2. QED
            BY <3>1, <3>2, <4>1, RecordEffect
    <3>4. QED
          BY <3>1, <3>3
  <2>3. QED
        BY <2>1, <2>2, <1>1
<1>5. TypeOK'
  <2>1. req'[r] = Idle \/ \E d \in Categories : req'[r] \in Pending(d) \cup Done(d)
        BY <1>1
  <2>2. /\ DOMAIN disk' = Categories /\ \A d \in Categories : disk'[d] \in Files(d)
        /\ DOMAIN cm' = Categories /\ \A d \in Categories : cm'[d] \in Files(d) \cup {Missing}
        BY <1>2 DEF TypeOK
  <2>3. QED
        BY <2>1, <2>2, <1>2, <1>4, TypeStep
<1>6. StepsAside(r)
      BY <1>1, <1>3, <1>4 DEF StepsAside
<1>7. LeavesOwn(r, c)'
  <2>1. Leaves(r)' = Leaves(r) /\ Data(c)' = Data(c)
        BY DEF Leaves, Data
  <2>2. QED
        BY <2>1, <1>1, <1>3, <1>4 DEF LeavesOwn
<1>8. QED
      BY <1>1, <1>4, <1>5, <1>6, <1>7, RequestStep

(* A write to a file that was removed tells nothing; its request does not  *)
(* count as clean.                                                         *)
LEMMA FillRemovedInv ==
    ASSUME Inv, NEW r \in Requests, FillRemoved(r)
    PROVE  Inv'
<1>1. ~At(r, "idle") /\ ~At(r, "ok") /\ DOMAIN req = Requests
      BY DEF FillRemoved, At, Inv, TypeOK
<1>2. req[r].cat \in Categories /\ req[r] \in Pending(req[r].cat) /\ ~req[r].clean
      BY <1>1, PendingFacts DEF Aligned, FillRemoved
<1>3. /\ DOMAIN req' = Requests /\ req'[r] = [req[r] EXCEPT !.pc = "list"]
      /\ \A q \in Requests \ {r} : req'[q] = req[q]
      BY <1>1 DEF FillRemoved, Goto
<1>4. "list" \in PendingPcs
      BY DEF PendingPcs
<1>5. /\ req'[r] \in Pending(req[r].cat) /\ req'[r].name = req[r].name
      /\ req'[r].content = req[r].content /\ req'[r].clean = req[r].clean
      BY <1>2, <1>3, <1>4, PendingMoved
<1>6. QED
      BY <1>1, <1>2, <1>3, <1>5, SyncInv DEF FillRemoved

(* os.ReadDir takes every file there is.                                   *)
LEMMA ListDirInv ==
    ASSUME Inv, NEW r \in Requests, ListDir(r)
    PROVE  Inv'
<1>1. ~At(r, "idle") /\ ~At(r, "ok") /\ DOMAIN req = Requests
      BY DEF ListDir, At, Inv, TypeOK
<1>2. PICK c \in Categories :
         /\ c = req[r].cat /\ req[r] \in Pending(c)
         /\ req[r].clean => Aligned(r)
      BY <1>1, PendingFacts
<1> DEFINE S == {n \in Names[c] : disk[c][n] # NoFile}
<1>3. /\ DOMAIN req' = Requests
      /\ req'[r] = [[req[r] EXCEPT !.pc = "read"] EXCEPT !.todo = S]
      /\ \A q \in Requests \ {r} : req'[q] = req[q]
      BY <1>1, <1>2 DEF ListDir
<1> HIDE DEF S
<1>4. S \subseteq Names[c]
      BY DEF S
<1>5. /\ req'[r] \in Pending(c) /\ req'[r].pc = "read" /\ req'[r].todo = S
      /\ req'[r].cat = c /\ req'[r].name = req[r].name /\ req'[r].content = req[r].content
      /\ req'[r].data = req[r].data /\ req'[r].clean = req[r].clean
      BY <1>2, <1>3, <1>4 DEF Pending
<1>6. ASSUME req[r].clean PROVE Aligned(r)'
  <2>1. disk[c][req[r].name] = req[r].content
        BY <1>2, <1>6 DEF Aligned, ListDir, At
  <2>2. ASSUME NEW n \in Names[c], n \notin S PROVE req[r].data[n] = disk[c][n]
    <3>1. disk[c][n] = NoFile
          BY <2>2 DEF S
    <3>2. req[r].data = NoFiles(c)
          BY <1>2, <1>6 DEF Aligned, ListDir, At
    <3>3. QED
          BY <3>1, <3>2 DEF NoFiles
  <2>3. QED
        BY <2>1, <2>2, <1>5 DEF Aligned, ListDir, At
<1>7. QED
      BY <1>1, <1>2, <1>3, <1>5, <1>6, SyncInv DEF ListDir
(* The first entry of a directory is one of its entries.                   *)
LEMMA FirstEntry ==
    ASSUME NEW T \in SUBSET Nat, T # {}
    PROVE  Min(T) \in T
<1> DEFINE R == OpToRel(<, Nat)
<1>1. IsWellFoundedOn(R, Nat)
      BY NatLessThanWellFounded
<1>2. \A x, y \in Nat : y < x => <<y, x>> \in R
      BY DEF OpToRel
<1> HIDE DEF R
<1>3. PICK x \in T : \A y \in T : ~ (<<y, x>> \in R)
      BY <1>1, WFMin
<1>4. ASSUME NEW y \in T PROVE x <= y
  <2>1. x \in Nat /\ y \in Nat /\ ~ (y < x)
        BY <1>2, <1>3
  <2>2. QED
        BY <2>1
<1>5. QED
      BY <1>4 DEF Min

(* os.ReadFile of one entry.                                               *)
LEMMA ReadFileInv ==
    ASSUME Inv, NEW r \in Requests, ReadFile(r)
    PROVE  Inv'
<1>1. ~At(r, "idle") /\ ~At(r, "ok") /\ DOMAIN req = Requests
      BY DEF ReadFile, At, Inv, TypeOK
<1>2. PICK c \in Categories :
         /\ c = req[r].cat /\ req[r] \in Pending(c) /\ req[r].todo \subseteq Names[c]
         /\ req[r].data \in Files(c) /\ disk[c] \in Files(c)
         /\ req[r].clean => Aligned(r)
      BY <1>1, PendingFacts
<1>3. PICK n \in req[r].todo : n = Min(req[r].todo)
  <2>1. req[r].todo \in SUBSET Nat /\ req[r].todo # {}
        BY <1>2, NamesAssumption DEF ReadFile
  <2>2. QED
        BY <2>1, FirstEntry
<1>4. PICK v \in Values, b \in BOOLEAN :
         /\ req' = [req EXCEPT ![r].todo = @ \ {n}, ![r].data[n] = v, ![r].clean = @ /\ b]
         /\ \/ b /\ v = disk[c][n] /\ UNCHANGED <<allowed, orderly>>
            \/ ~b /\ v = NoFile /\ Record([orderly EXCEPT ![c] = FALSE], allowed)
  <2>1. disk[c][n] \in Values /\ NoFile \in Values
        BY <1>2, <1>3 DEF Files, Values
  <2>2. CASE /\ req' = [req EXCEPT ![r].todo = @ \ {n}, ![r].data[n] = disk[c][n],
                                   ![r].clean = @ /\ TRUE]
             /\ UNCHANGED <<allowed, orderly>>
        BY <2>1, <2>2
  <2>3. CASE /\ req' = [req EXCEPT ![r].todo = @ \ {n}, ![r].data[n] = NoFile,
                                   ![r].clean = @ /\ FALSE]
             /\ Record([orderly EXCEPT ![c] = FALSE], allowed)
        BY <2>1, <2>3
  <2>4. QED
        BY <2>2, <2>3, <1>2, <1>3 DEF ReadFile
<1>5. /\ DOMAIN req' = Requests
      /\ req'[r] = [[[req[r] EXCEPT !.todo = @ \ {n}] EXCEPT !.data = [@ EXCEPT ![n] = v]]
                       EXCEPT !.clean = @ /\ b]
      /\ \A q \in Requests \ {r} : req'[q] = req[q]
      BY <1>1, <1>4
<1>6. /\ req'[r] \in Pending(c) /\ req'[r].pc = "read" /\ req'[r].todo = req[r].todo \ {n}
      /\ req'[r].cat = c /\ req'[r].name = req[r].name /\ req'[r].content = req[r].content
      /\ req'[r].data = [req[r].data EXCEPT ![n] = v] /\ req'[r].clean = (req[r].clean /\ b)
  <2>1. [req[r].data EXCEPT ![n] = v] \in Files(c)
        BY <1>2, <1>3 DEF Files
  <2>2. req[r].pc = "read"
        BY DEF ReadFile, At
  <2>3. PICK old, new : old = req[r] /\ new = req'[r]
        OBVIOUS
  <2>4. /\ old \in Pending(c) /\ old.pc = "read" /\ [old.data EXCEPT ![n] = v] \in Files(c)
        /\ new = [[[old EXCEPT !.todo = @ \ {n}] EXCEPT !.data = [@ EXCEPT ![n] = v]]
                    EXCEPT !.clean = @ /\ b]
        BY <2>1, <2>2, <2>3, <1>2, <1>5
  <2>5. /\ new = [old EXCEPT !.todo = old.todo \ {n}, !.data = [old.data EXCEPT ![n] = v],
                              !.clean = (old.clean /\ b)]
        /\ old.todo \ {n} \in SUBSET Names[c] /\ (old.clean /\ b) \in BOOLEAN
        BY <2>4 DEF Pending
  <2>6. /\ new \in Pending(c) /\ new.pc = "read" /\ new.todo = old.todo \ {n}
        /\ new.cat = c /\ new.name = old.name /\ new.content = old.content
        /\ new.data = [old.data EXCEPT ![n] = v] /\ new.clean = (old.clean /\ b)
        BY <2>4, <2>5 DEF Pending
  <2>7. QED
        BY <2>3, <2>6
<1>7. ASSUME req'[r].clean PROVE req[r].clean /\ Aligned(r)'
  <2>1. req[r].clean /\ b /\ v = disk[c][n]
        BY <1>4, <1>6, <1>7
  <2>2. /\ disk[c][req[r].name] = req[r].content
        /\ \A m \in Names[c] : m \in req[r].todo \/ req[r].data[m] = disk[c][m]
        BY <2>1, <1>2 DEF Aligned, ReadFile, At
  <2>3. ASSUME NEW m \in Names[c], m \notin req'[r].todo PROVE req'[r].data[m] = disk[c][m]
        BY <2>1, <2>2, <2>3, <1>2, <1>6 DEF Files
  <2>4. QED
        BY <2>1, <2>2, <2>3, <1>6 DEF Aligned, ReadFile, At
<1>8. b => req'[r].clean = req[r].clean
  <2>1. req[r].clean \in BOOLEAN
        BY <1>2, PendingParts
  <2>2. QED
        BY <2>1, <1>6
<1>9. QED
      BY <1>1, <1>2, <1>4, <1>5, <1>6, <1>7, <1>8, SyncInv DEF ReadFile

(* applyConfigMap looks whether there is a ConfigMap.                      *)
LEMMA GetMapInv ==
    ASSUME Inv, NEW r \in Requests, GetMap(r)
    PROVE  Inv'
<1>1. ~At(r, "idle") /\ ~At(r, "ok") /\ DOMAIN req = Requests
      BY DEF GetMap, At, Inv, TypeOK
<1>2. PICK c \in Categories :
         /\ c = req[r].cat /\ req[r] \in Pending(c)
         /\ req[r].clean => Aligned(r)
      BY <1>1, PendingFacts
<1>3. PICK l \in {"create", "update"} :
         /\ DOMAIN req' = Requests
         /\ req'[r] = [[req[r] EXCEPT !.pc = l] EXCEPT !.fresh = TRUE]
         /\ \A q \in Requests \ {r} : req'[q] = req[q]
      BY <1>1 DEF GetMap
<1>4. /\ req'[r] \in Pending(c) /\ req'[r].pc = l /\ req'[r].todo = req[r].todo
      /\ req'[r].cat = c /\ req'[r].name = req[r].name /\ req'[r].content = req[r].content
      /\ req'[r].data = req[r].data /\ req'[r].clean = req[r].clean
  <2>1. l \in {"change", "fill", "removed", "list", "read", "create", "update"}
        OBVIOUS
  <2>2. QED
        BY <2>1, <1>2, <1>3 DEF Pending
<1>5. ASSUME req[r].clean PROVE Aligned(r)'
  <2>1. /\ disk[c][req[r].name] = req[r].content /\ req[r].todo = {}
        /\ \A n \in Names[c] : req[r].data[n] = disk[c][n]
        BY <1>2, <1>5 DEF Aligned, GetMap, At
  <2>2. disk' = disk
        BY DEF GetMap
  <2>3. QED
        BY <2>1, <2>2, <1>4 DEF Aligned, At
<1>6. QED
      BY <1>1, <1>2, <1>3, <1>4, <1>5, SyncInv DEF GetMap
(* A request ends: what it changed so far stays.                           *)
LEMMA EndInv ==
    ASSUME Inv, NEW r \in Requests, Fail(r) \/ Respond(r)
    PROVE  Inv'
<1>1. /\ ~At(r, "idle") /\ TypeOK /\ DOMAIN req = Requests
      /\ req' = [req EXCEPT ![r] = Idle] /\ UNCHANGED <<disk, cm, phase, allowed, orderly>>
      BY DEF Fail, Respond, At, Inv, TypeOK
<1>2. PICK c \in Categories :
         /\ c = req[r].cat
         /\ orderly[c] => \A n \in Names[c] :
               disk[c][n] \in allowed[c][n] /\ Data(c)[n] \in allowed[c][n]
      BY <1>1, InFlightFacts
<1>3. /\ DOMAIN req' = Requests /\ req'[r] = Idle /\ req'[r].pc = "idle"
      /\ \A q \in Requests \ {r} : req'[q] = req[q]
      BY <1>1 DEF Idle
<1>4. TypeOK'
      BY <1>1, <1>3 DEF TypeOK
<1>5. StepsAside(r)
      BY <1>1, <1>3 DEF StepsAside
<1>6. LeavesOwn(r, c)'
      BY <1>1, <1>2, <1>3 DEF LeavesOwn, At, Data
<1>7. QED
      BY <1>1, <1>2, <1>4, <1>5, <1>6, RequestStep

(* What the API server stores is what the request has put together, and    *)
(* for one that is clean that is the directory.                            *)
LEMMA StoredEffect ==
    ASSUME Inv, NEW r \in Requests, Accepted(r), NEW next, Stored(r, req[r].data, next)
    PROVE  \E c \in Categories :
              /\ c = req[r].cat /\ ~At(r, "idle") /\ ~At(r, "ok") /\ req[r].clean \in BOOLEAN
              /\ req[r].name \in Names[c] /\ req[r].content \in Values
              /\ DOMAIN cm' = Categories
              /\ \A d \in Categories : cm'[d] \in Files(d) \cup {Missing}
              /\ \A d \in Categories \ {c} : cm'[d] = cm[d]
              /\ req[r].clean =>
                    /\ cm'[c] = disk[c] /\ Data(c)' = disk[c]
                    /\ disk[c][req[r].name] = req[r].content
              /\ DOMAIN req' = Requests /\ req'[r] = next
              /\ \A q \in Requests \ {r} :
                    /\ req'[q] = req[q] \/ \E d \in Categories : req'[q] \in Pending(d)
                    /\ req[q].pc = "idle" <=> req'[q].pc = "idle"
                    /\ req[q].pc # "idle" =>
                          req'[q].cat = req[q].cat /\ req'[q].clean = req[q].clean
                    /\ req[q].pc # "idle" /\ req[q].cat # c => req'[q] = req[q]
              /\ orderly[c] =>
                    /\ req[r].clean
                    /\ \A n \in Names[c] : disk[c][n] \in allowed[c][n]
<1>1. TypeOK /\ ~At(r, "idle") /\ ~At(r, "ok") /\ req[r].pc \in {"create", "update"}
      BY DEF Accepted, At, Inv
<1>2. PICK c \in Categories :
         /\ c = req[r].cat /\ req[r].name \in Names[c] /\ req[r].clean \in BOOLEAN
         /\ req[r].content \in Contents \cup {NoFile}
         /\ req[r].data \in Files(c) /\ disk[c] \in Files(c)
         /\ req[r].clean => Aligned(r)
         /\ orderly[c] =>
               /\ req[r].clean
               /\ \A n \in Names[c] : disk[c][n] \in allowed[c][n]
      BY <1>1, PendingFacts
<1>3. /\ DOMAIN cm' = Categories /\ cm'[c] = req[r].data
      /\ \A d \in Categories \ {c} : cm'[d] = cm[d]
      /\ \A d \in Categories : cm'[d] \in Files(d) \cup {Missing}
      BY <1>1, <1>2 DEF Stored, TypeOK
<1>4. ASSUME req[r].clean
      PROVE  /\ cm'[c] = disk[c] /\ Data(c)' = disk[c]
             /\ disk[c][req[r].name] = req[r].content
  <2>1. /\ \A n \in Names[c] : req[r].data[n] = disk[c][n]
        /\ disk[c][req[r].name] = req[r].content
        BY <1>1, <1>2, <1>4 DEF Aligned
  <2>2. req[r].data = disk[c]
        BY <2>1, <1>2 DEF Files
  <2>3. disk[c] # Missing
        BY <1>2, MissingAssumption DEF Files, Values
  <2>4. QED
        BY <2>1, <2>2, <2>3, <1>3 DEF Data
<1>5. /\ DOMAIN req' = Requests /\ req'[r] = next
      BY DEF Stored
<1>6. ASSUME NEW q \in Requests \ {r}
      PROVE  /\ req'[q] = req[q] \/ \E d \in Categories : req'[q] \in Pending(d)
             /\ req[q].pc = "idle" <=> req'[q].pc = "idle"
             /\ req[q].pc # "idle" => req'[q].cat = req[q].cat /\ req'[q].clean = req[q].clean
             /\ req[q].pc # "idle" /\ req[q].cat # c => req'[q] = req[q]
  <2>1. CASE req'[q] = req[q]
        BY <2>1
  <2>2. CASE /\ q \in InFlight(c) /\ ~At(q, "ok")
             /\ req'[q] = [req[q] EXCEPT !.fresh = FALSE]
    <3>1. ~At(q, "idle") /\ req[q].cat = c /\ req[q] \in Pending(c)
          BY <2>2, <1>1, RequestType DEF InFlight
    <3>2. /\ req'[q] \in Pending(c) /\ req'[q].pc = req[q].pc /\ req'[q].cat = c
          /\ req'[q].clean = req[q].clean
          BY <2>2, <3>1 DEF Pending
    <3>3. QED
          BY <3>1, <3>2 DEF At
  <2>3. QED
        BY <2>1, <2>2, <1>2 DEF Stored
<1>7. QED
      BY <1>1, <1>2, <1>3, <1>4, <1>5, <1>6 DEF Values

(* Create or Update succeeds: what the request asked for is promised.      *)
LEMMA ApplyInv ==
    ASSUME Inv, NEW r \in Requests, Apply(r)
    PROVE  Inv'
<1>1. Accepted(r) /\ Stored(r, req[r].data, Success(r))
      BY DEF Apply
<1>2. PICK c \in Categories :
         /\ c = req[r].cat /\ ~At(r, "idle") /\ ~At(r, "ok") /\ req[r].clean \in BOOLEAN
         /\ req[r].name \in Names[c] /\ req[r].content \in Values
         /\ DOMAIN cm' = Categories
         /\ \A d \in Categories : cm'[d] \in Files(d) \cup {Missing}
         /\ \A d \in Categories \ {c} : cm'[d] = cm[d]
         /\ req[r].clean =>
               /\ cm'[c] = disk[c] /\ Data(c)' = disk[c]
               /\ disk[c][req[r].name] = req[r].content
         /\ DOMAIN req' = Requests /\ req'[r] = Success(r)
         /\ \A q \in Requests \ {r} :
               /\ req'[q] = req[q] \/ \E d \in Categories : req'[q] \in Pending(d)
               /\ req[q].pc = "idle" <=> req'[q].pc = "idle"
               /\ req[q].pc # "idle" => req'[q].cat = req[q].cat /\ req'[q].clean = req[q].clean
               /\ req[q].pc # "idle" /\ req[q].cat # c => req'[q] = req[q]
         /\ orderly[c] =>
               /\ req[r].clean
               /\ \A n \in Names[c] : disk[c][n] \in allowed[c][n]
      BY <1>1, StoredEffect
<1>3. TypeOK /\ disk' = disk /\ phase' = phase
      BY DEF Inv, Apply
<1>4. /\ orderly' = orderly /\ orderly' \in [Categories -> BOOLEAN]
      /\ DOMAIN allowed' = Categories
      /\ \A d \in Categories : allowed'[d] \in [Names[d] -> SUBSET Values]
      /\ \A d \in Categories \ {c} : orderly[d] => allowed'[d] = allowed[d]
      /\ orderly[c] => /\ allowed'[c][req[r].name] = {req[r].content}
                       /\ \A n \in Names[c] \ {req[r].name} : allowed'[c][n] = allowed[c][n]
  <2> DEFINE new == [allowed EXCEPT ![c] = [allowed[c] EXCEPT ![req[r].name] = {req[r].content}]]
  <2>1. allowed[c] \in [Names[c] -> SUBSET Values] /\ DOMAIN allowed = Categories
        BY <1>3 DEF TypeOK
  <2>2. /\ new[c] = [allowed[c] EXCEPT ![req[r].name] = {req[r].content}]
        /\ \A d \in Categories \ {c} : new[d] = allowed[d]
        BY <2>1
  <2>3. Record(orderly, new)
        BY <1>2 DEF Apply, Promise
  <2> HIDE DEF new
  <2>4. new[c] \in [Names[c] -> SUBSET Values]
        BY <2>1, <2>2, <1>2
  <2>5. \A d \in Categories : new[d] \in [Names[d] -> SUBSET Values]
        BY <2>2, <2>4, <1>3 DEF TypeOK
  <2>6. orderly \in [Categories -> BOOLEAN]
        BY <1>3 DEF TypeOK
  <2>7. /\ orderly' = orderly /\ orderly' \in [Categories -> BOOLEAN]
        /\ DOMAIN allowed' = Categories
        /\ \A d \in Categories : allowed'[d] \in [Names[d] -> SUBSET Values]
        /\ \A d \in Categories : orderly'[d] => allowed'[d] = new[d]
        BY <2>3, <2>5, <2>6, RecordEffect
  <2>8. QED
        BY <2>1, <2>2, <2>7, <1>2
<1>5. req'[r] \in Done(c) /\ req'[r].pc = "ok" /\ req'[r].cat = c /\ req'[r].clean = req[r].clean
      BY <1>2 DEF Success, Done
<1>6. TypeOK'
  <2>1. req'[r] = Idle \/ \E d \in Categories : req'[r] \in Pending(d) \cup Done(d)
        BY <1>5
  <2>2. DOMAIN disk' = Categories /\ \A d \in Categories : disk'[d] \in Files(d)
        BY <1>3 DEF TypeOK
  <2>3. QED
        BY <2>1, <2>2, <1>2, <1>3, <1>4, TypeStep
<1>7. StepsAside(r)
      BY <1>2, <1>3, <1>4, <1>5 DEF StepsAside
<1>8. LeavesOwn(r, c)'
  <2>1. req[r].clean => Aligned(r)'
        BY <1>2, <1>3, <1>5 DEF Aligned, At
  <2>2. ASSUME orderly[c], NEW n \in Names[c]
        PROVE  disk'[c][n] \in allowed'[c][n] /\ Data(c)'[n] \in allowed'[c][n]
        BY <2>2, <1>2, <1>3, <1>4
  <2>3. QED
        BY <2>1, <2>2, <1>2, <1>4, <1>5 DEF LeavesOwn, At
<1>9. QED
      BY <1>2, <1>4, <1>6, <1>7, <1>8, RequestStep

(* It succeeds and the answer is lost: what is stored was allowed before.  *)
LEMMA ApplyUnansweredInv ==
    ASSUME Inv, NEW r \in Requests, ApplyUnanswered(r)
    PROVE  Inv'
<1>1. Accepted(r) /\ Stored(r, req[r].data, Idle)
      BY DEF ApplyUnanswered
<1>2. PICK c \in Categories :
         /\ c = req[r].cat /\ ~At(r, "idle")
         /\ DOMAIN cm' = Categories
         /\ \A d \in Categories : cm'[d] \in Files(d) \cup {Missing}
         /\ \A d \in Categories \ {c} : cm'[d] = cm[d]
         /\ req[r].clean => Data(c)' = disk[c]
         /\ DOMAIN req' = Requests /\ req'[r] = Idle
         /\ \A q \in Requests \ {r} :
               /\ req'[q] = req[q] \/ \E d \in Categories : req'[q] \in Pending(d)
               /\ req[q].pc = "idle" <=> req'[q].pc = "idle"
               /\ req[q].pc # "idle" => req'[q].cat = req[q].cat /\ req'[q].clean = req[q].clean
               /\ req[q].pc # "idle" /\ req[q].cat # c => req'[q] = req[q]
         /\ orderly[c] =>
               /\ req[r].clean
               /\ \A n \in Names[c] : disk[c][n] \in allowed[c][n]
      BY <1>1, StoredEffect
<1>3. TypeOK /\ UNCHANGED <<disk, phase, allowed, orderly>>
      BY DEF Inv, ApplyUnanswered
<1>4. req'[r].pc = "idle"
      BY <1>2 DEF Idle
<1>5. TypeOK'
  <2>1. /\ DOMAIN disk' = Categories /\ \A d \in Categories : disk'[d] \in Files(d)
        /\ DOMAIN allowed' = Categories
        /\ \A d \in Categories : allowed'[d] \in [Names[d] -> SUBSET Values]
        /\ orderly' \in [Categories -> BOOLEAN]
        BY <1>3 DEF TypeOK
  <2>2. QED
        BY <2>1, <1>2, <1>3, TypeStep
<1>6. StepsAside(r)
      BY <1>2, <1>3, <1>4 DEF StepsAside
<1>7. LeavesOwn(r, c)'
      BY <1>2, <1>3, <1>4 DEF LeavesOwn, At
<1>8. QED
      BY <1>2, <1>3, <1>5, <1>6, <1>7, RequestStep
(* A request arrives: it may leave what it was asked to, and it makes      *)
(* those of its category that it finds no longer clean.                    *)
LEMMA BeginInv ==
    ASSUME Inv, NEW r \in Requests, NEW c \in Categories, NEW n \in Names[c],
           NEW v \in Contents \cup {NoFile}, Begin(r, c, n, v)
    PROVE  Inv'
<1> DEFINE may == IF v = NoFile THEN {v} ELSE {v, Empty}
           ord == [orderly EXCEPT ![c] = @ /\ InFlight(c) = {}]
           new == [allowed EXCEPT ![c] = [allowed[c] EXCEPT ![n] = @ \cup may]]
<1>1. /\ TypeOK /\ phase = Serving /\ phase' = Serving /\ disk' = disk /\ cm' = cm
      /\ At(r, "idle") /\ r \notin InFlight(c) /\ may \subseteq Values
      BY DEF Begin, Inv, InFlight, Values
<1>2. /\ orderly' = ord /\ orderly' \in [Categories -> BOOLEAN]
      /\ DOMAIN allowed' = Categories
      /\ \A d \in Categories : allowed'[d] \in [Names[d] -> SUBSET Values]
      /\ \A d \in Categories \ {c} : orderly'[d] = orderly[d]
                                   /\ (orderly[d] => allowed'[d] = allowed[d])
      /\ orderly'[c] => /\ orderly[c] /\ InFlight(c) = {} /\ may \subseteq allowed'[c][n]
                        /\ \A m \in Names[c] : allowed[c][m] \subseteq allowed'[c][m]
  <2>1. /\ allowed[c] \in [Names[c] -> SUBSET Values] /\ DOMAIN allowed = Categories
        /\ orderly \in [Categories -> BOOLEAN]
        BY <1>1 DEF TypeOK
  <2>2. /\ new[c] = [allowed[c] EXCEPT ![n] = @ \cup may]
        /\ \A d \in Categories \ {c} : new[d] = allowed[d]
        BY <2>1
  <2>3. /\ ord \in [Categories -> BOOLEAN] /\ ord[c] = (orderly[c] /\ InFlight(c) = {})
        /\ \A d \in Categories \ {c} : ord[d] = orderly[d]
    <3>1. (orderly[c] /\ InFlight(c) = {}) \in BOOLEAN
          OBVIOUS
    <3>2. QED
          BY <2>1, <3>1
  <2>4. Record(ord, new)
        BY DEF Begin
  <2> HIDE DEF new, ord
  <2>5. /\ new[c] \in [Names[c] -> SUBSET Values] /\ may \subseteq new[c][n]
        /\ \A m \in Names[c] : allowed[c][m] \subseteq new[c][m]
    <3> HIDE DEF may
    <3> QED
        BY <2>1, <2>2, <1>1
  <2>6. \A d \in Categories : new[d] \in [Names[d] -> SUBSET Values]
        BY <2>2, <2>5, <1>1 DEF TypeOK
  <2>7. /\ orderly' = ord /\ orderly' \in [Categories -> BOOLEAN]
        /\ DOMAIN allowed' = Categories
        /\ \A d \in Categories : allowed'[d] \in [Names[d] -> SUBSET Values]
        /\ \A d \in Categories : orderly'[d] => allowed'[d] = new[d]
        BY <2>3, <2>4, <2>6, RecordEffect
  <2> HIDE DEF may
  <2>8. QED
        BY <2>2, <2>3, <2>5, <2>7
<1> HIDE DEF ord, new
<1>3. /\ DOMAIN req' = Requests /\ req'[r] \in Pending(c)
      /\ req'[r].pc = "change" /\ req'[r].cat = c /\ req'[r].name = n /\ req'[r].content = v
      /\ req'[r].data = NoFiles(c) /\ (req'[r].clean <=> InFlight(c) = {})
  <2>1. NoFiles(c) \in Files(c)
        BY DEF NoFiles, Files, Values
  <2>2. PICK b \in BOOLEAN : b = (InFlight(c) = {})
        OBVIOUS
  <2>3. /\ DOMAIN req' = Requests
        /\ req'[r] = [pc |-> "change", cat |-> c, name |-> n, content |-> v, todo |-> {},
                      data |-> NoFiles(c), fresh |-> FALSE, clean |-> b]
        BY <2>2 DEF Begin
  <2>4. PICK p : p = req'[r]
        OBVIOUS
  <2>5. /\ p \in Pending(c) /\ p.pc = "change" /\ p.cat = c /\ p.name = n /\ p.content = v
        /\ p.data = NoFiles(c) /\ p.clean = b
    <3>1. p = [pc |-> "change", cat |-> c, name |-> n, content |-> v, todo |-> {},
               data |-> NoFiles(c), fresh |-> FALSE, clean |-> b]
          BY <2>3, <2>4
    <3>2. QED
          BY <2>1, <3>1 DEF Pending
  <2>6. QED
        BY <2>2, <2>3, <2>4, <2>5
<1>4. ASSUME NEW q \in Requests \ {r}
      PROVE  /\ \/ q \in InFlight(c) /\ req'[q] = [req[q] EXCEPT !.clean = FALSE]
                \/ q \notin InFlight(c) /\ req'[q] = req[q]
             /\ req'[q] = Idle \/ \E d \in Categories : req'[q] \in Pending(d) \cup Done(d)
             /\ At(q, "idle")' <=> At(q, "idle")
             /\ ~At(q, "idle") => /\ req'[q].cat = req[q].cat /\ req[q].cat \in Categories
                                  /\ req[q].cat # c => req'[q] = req[q]
                                  /\ req'[q].clean => req'[q] = req[q] /\ req[q].cat # c
  <2>1. CASE q \notin InFlight(c)
    <3>1. req'[q] = req[q]
          BY <2>1 DEF Begin
    <3>2. ~At(q, "idle") => req[q].cat # c /\ req[q].cat \in Categories
          BY <2>1, <1>1, RequestType DEF InFlight
    <3>3. QED
          BY <2>1, <3>1, <3>2, <1>1 DEF TypeOK, At
  <2>2. CASE q \in InFlight(c)
    <3>1. req'[q] = [req[q] EXCEPT !.clean = FALSE]
          BY <2>2 DEF Begin
    <3>2. ~At(q, "idle") /\ req[q].cat = c
          BY <2>2 DEF InFlight
    <3>3. req[q] \in Pending(c) \/ req[q] \in Done(c)
          BY <3>2, <1>1, RequestType
    <3>4. /\ req'[q] \in Pending(c) \cup Done(c)
          /\ req'[q].pc = req[q].pc /\ req'[q].cat = c /\ req'[q].clean = FALSE
      <4>1. CASE req[q] \in Pending(c)
            BY <4>1, <3>1 DEF Pending
      <4>2. CASE req[q] \in Done(c)
            BY <4>2, <3>1 DEF Done
      <4>3. QED
            BY <3>3, <4>1, <4>2
    <3>5. QED
          BY <2>2, <3>1, <3>2, <3>4 DEF At
  <2>3. QED
        BY <2>1, <2>2
<1>5. TypeOK'
  <2>1. \A q \in Requests : req'[q] = Idle \/ \E d \in Categories : req'[q] \in Pending(d) \cup Done(d)
        BY <1>3, <1>4
  <2>2. QED
        BY <2>1, <1>1, <1>2, <1>3 DEF TypeOK
<1>6. /\ \A d \in Categories : d # c => InFlight(d)' = InFlight(d)
      /\ InFlight(c)' = InFlight(c) \cup {r}
  <2>1. At(r, "idle") /\ ~At(r, "idle")' /\ req'[r].cat = c
        BY <1>1, <1>3 DEF At
  <2>2. QED
        BY <2>1, <1>4 DEF InFlight
<1>7. CleanUndisturbed'
  <2> SUFFICES ASSUME NEW q \in Requests, ~At(q, "idle")', req'[q].clean
               PROVE  InFlight(req[q].cat)' = {q} /\ Aligned(q)'
      BY DEF CleanUndisturbed
  <2>1. CASE q = r
    <3>1. InFlight(c)' = {r}
          BY <2>1, <1>3, <1>6
    <3>2. Aligned(r)'
          BY <1>3 DEF Aligned, At, NoFiles
    <3>3. QED
          BY <2>1, <3>1, <3>2, <1>3
  <2>2. CASE q # r
    <3>1. /\ ~At(q, "idle") /\ req'[q] = req[q] /\ req[q].cat \in Categories /\ req[q].cat # c
          BY <2>2, <1>4
    <3>2. InFlight(req[q].cat) = {q} /\ Aligned(q)
          BY <3>1 DEF Inv, CleanUndisturbed
    <3>3. QED
          BY <3>1, <3>2, <1>1, <1>6 DEF Aligned, At
  <2>3. QED
        BY <2>1, <2>2
<1>8. AnsweredIsDurable'
  <2>1. ASSUME NEW d \in Categories, orderly'[d], NEW m \in Names[d]
        PROVE  Data(d)'[m] \in allowed'[d][m]
    <3>1. Data(d)' = Data(d)
          BY <1>1 DEF Data
    <3>2. orderly[d] /\ allowed[d][m] \subseteq allowed'[d][m]
          BY <2>1, <1>2
    <3>3. QED
          BY <3>1, <3>2 DEF Inv, AnsweredIsDurable
  <2>2. QED
        BY <2>1 DEF AnsweredIsDurable
<1>9. DirectoryAllowed'
  <2>1. ASSUME NEW q \in Requests, ~At(q, "idle")', orderly'[req'[q].cat]
        PROVE  /\ req'[q].clean
               /\ ~At(q, "ok")' => Leaves(q)' \subseteq allowed'[req'[q].cat][req'[q].name]
    <3>1. CASE q = r
      <4>1. orderly'[c] /\ Leaves(r)' = may
            BY <2>1, <3>1, <1>3 DEF Leaves
      <4>2. QED
            BY <3>1, <4>1, <1>2, <1>3
    <3>2. CASE q # r
      <4>1. /\ ~At(q, "idle") /\ req'[q].cat = req[q].cat /\ req[q].cat \in Categories
            BY <2>1, <3>2, <1>4
      <4>2. req[q].cat # c
        <5>1. q \in InFlight(req[q].cat)
              BY <4>1 DEF InFlight
        <5>2. QED
              BY <5>1, <4>1, <2>1, <1>2
      <4>3. req'[q] = req[q] /\ orderly[req[q].cat] /\ allowed'[req[q].cat] = allowed[req[q].cat]
            BY <4>1, <4>2, <2>1, <3>2, <1>2, <1>4
      <4>4. /\ req[q].clean
            /\ ~At(q, "ok") => Leaves(q) \subseteq allowed[req[q].cat][req[q].name]
            BY <4>1, <4>3, InFlightFacts
      <4>5. QED
            BY <4>3, <4>4 DEF Leaves, At
    <3>3. QED
          BY <3>1, <3>2
  <2>2. ASSUME NEW d \in Categories, orderly'[d], NEW m \in Names[d]
        PROVE  disk'[d][m] \in allowed'[d][m]
    <3>1. orderly[d] /\ allowed[d][m] \subseteq allowed'[d][m]
          BY <2>2, <1>2
    <3>2. ~Unrestored(d)
          BY <1>1 DEF Unrestored, Serving
    <3>3. QED
          BY <3>1, <3>2, <1>1 DEF Inv, DirectoryAllowed
  <2>3. QED
        BY <1>1, <2>1, <2>2 DEF DirectoryAllowed
<1>10. QED
      BY <1>5, <1>7, <1>8, <1>9 DEF Inv

(***************************************************************************)
(* Crashes and the restore at start.                                       *)
(***************************************************************************)

(* A crash ends every request.  The directories stay or are lost, and then *)
(* every category is still to be restored.                                 *)
LEMMA CrashInv ==
    ASSUME Inv, Crash
    PROVE  Inv'
<1>1. /\ TypeOK /\ phase' = 1 /\ cm' = cm /\ allowed' = allowed /\ orderly' = orderly
      /\ DOMAIN req' = Requests
      /\ \A r \in Requests : req'[r] = Idle /\ At(r, "idle")'
      BY DEF Inv, Crash, Idle, At
<1>2. \A c \in Categories : Unrestored(c)'
      BY <1>1 DEF Unrestored, RestoreOrder, Categories
<1>3. /\ DOMAIN disk' = Categories /\ \A c \in Categories : disk'[c] \in Files(c)
      /\ \A c \in Categories : disk'[c] = disk[c] \/ disk'[c] = NoFiles(c)
  <2>1. \A c \in Categories : NoFiles(c) \in Files(c)
        BY DEF NoFiles, Files, Values
  <2>2. CASE disk' = disk
        BY <2>2, <1>1 DEF TypeOK
  <2>3. CASE disk' = [c \in Categories |-> NoFiles(c)]
        BY <2>1, <2>3
  <2>4. QED
        BY <2>2, <2>3 DEF Crash
<1>4. TypeOK'
      BY <1>1, <1>3 DEF TypeOK, Serving
<1>5. CleanUndisturbed'
      BY <1>1 DEF CleanUndisturbed
<1>6. AnsweredIsDurable'
      BY <1>1 DEF Inv, AnsweredIsDurable, Data
<1>7. DirectoryAllowed'
  <2>1. ASSUME NEW c \in Categories, orderly'[c], NEW n \in Names[c]
        PROVE  disk'[c][n] \in allowed'[c][n] \/ (Unrestored(c)' /\ disk'[c][n] = NoFile)
    <3>1. CASE disk'[c] = disk[c]
      <4>1. disk[c][n] \in allowed[c][n] \/ disk[c][n] = NoFile
            BY <2>1, <1>1 DEF Inv, DirectoryAllowed
      <4>2. disk'[c][n] = disk[c][n] /\ allowed'[c][n] = allowed[c][n]
            BY <3>1, <1>1
      <4>3. Unrestored(c)'
            BY <1>2
      <4>4. QED
            BY <4>1, <4>2, <4>3
    <3>2. CASE disk'[c] = NoFiles(c)
          BY <3>2, <1>2 DEF NoFiles
    <3>3. QED
          BY <3>1, <3>2, <1>3
  <2>2. QED
        BY <2>1, <1>1 DEF DirectoryAllowed
<1>8. QED
      BY <1>4, <1>5, <1>6, <1>7 DEF Inv

(* What a restore writes is what the ConfigMap holds.                      *)
LEMMA RestoredFiles ==
    ASSUME Inv, NEW c \in Categories, NEW names
    PROVE  /\ Restored(c, names) \in Files(c)
           /\ \A n \in Names[c] :
                 \/ n \in names /\ Restored(c, names)[n] = Data(c)[n]
                 \/ Restored(c, names)[n] = disk[c][n] /\ (n \in names => Data(c)[n] = NoFile)
<1>1. disk[c] \in Files(c) /\ Data(c) \in Files(c)
      BY DEF Inv, TypeOK, Data, NoFiles, Files, Values
<1>2. QED
      BY <1>1 DEF Restored, Files

(* A restored category holds what is allowed: where the directory was lost *)
(* it is what the ConfigMap holds, and that is allowed.                    *)
LEMMA RestoredAllowed ==
    ASSUME Inv, NEW c \in Categories, orderly[c], NEW n \in Names[c]
    PROVE  Restored(c, Names[c])[n] \in allowed[c][n]
<1>1. Data(c)[n] \in allowed[c][n] /\ (disk[c][n] \in allowed[c][n] \/ disk[c][n] = NoFile)
      BY DEF Inv, AnsweredIsDurable, DirectoryAllowed
<1>2. QED
      BY <1>1, RestoredFiles
(* restoreCategory writes a category; the one that follows is still to be  *)
(* restored.                                                               *)
LEMMA RestoreCategoryInv ==
    ASSUME Inv, RestoreCategory
    PROVE  Inv'
<1>1. /\ TypeOK /\ phase \in 1..2 /\ phase' = phase + 1 /\ phase' \in 1..Serving
      /\ UNCHANGED <<cm, req, allowed, orderly>>
      BY DEF Inv, RestoreCategory, TypeOK, Serving
<1>2. PICK c \in Categories : c = RestoreOrder[phase]
      BY <1>1 DEF RestoreOrder, Categories
<1>3. /\ DOMAIN disk' = Categories /\ disk'[c] = Restored(c, Names[c])
      /\ \A d \in Categories \ {c} : disk'[d] = disk[d]
      BY <1>1, <1>2 DEF RestoreCategory, TypeOK
<1>4. TypeOK'
  <2>1. \A d \in Categories : disk'[d] \in Files(d)
        BY <1>1, <1>3, RestoredFiles DEF TypeOK
  <2>2. QED
        BY <2>1, <1>1, <1>3 DEF TypeOK
<1>5. \A r \in Requests : At(r, "idle")'
      BY <1>1 DEF Inv, DirectoryAllowed, Serving, At
<1>6. CleanUndisturbed'
      BY <1>5 DEF CleanUndisturbed
<1>7. AnsweredIsDurable'
      BY <1>1 DEF Inv, AnsweredIsDurable, Data
<1>8. DirectoryAllowed'
  <2>1. ASSUME NEW d \in Categories, orderly'[d], NEW n \in Names[d]
        PROVE  disk'[d][n] \in allowed'[d][n] \/ (Unrestored(d)' /\ disk'[d][n] = NoFile)
    <3>1. CASE d = c
          BY <2>1, <3>1, <1>1, <1>3, RestoredAllowed
    <3>2. CASE d # c
      <4>1. Unrestored(d) => Unrestored(d)'
            BY <3>2, <1>1, <1>2 DEF Unrestored
      <4>2. disk[d][n] \in allowed[d][n] \/ (Unrestored(d) /\ disk[d][n] = NoFile)
            BY <2>1, <1>1 DEF Inv, DirectoryAllowed
      <4>3. QED
            BY <3>2, <4>1, <4>2, <1>1, <1>3
    <3>3. QED
          BY <3>1, <3>2
  <2>2. QED
        BY <2>1, <1>5 DEF DirectoryAllowed
<1>9. QED
      BY <1>4, <1>6, <1>7, <1>8 DEF Inv

(* A restore that fails: a category it did not complete is orderly no      *)
(* longer, and is served all the same.                                     *)
LEMMA RestoreFailsInv ==
    ASSUME Inv, RestoreFails
    PROVE  Inv'
<1> DEFINE ord == [d \in Categories |->
                     /\ orderly[d]
                     /\ Unrestored(d) => disk'[d] = Restored(d, Names[d])]
<1>1. /\ TypeOK /\ phase \in 1..2 /\ phase' = Serving /\ UNCHANGED <<cm, req>>
      BY DEF Inv, RestoreFails, TypeOK, Serving
<1>2. PICK c \in Categories : c = RestoreOrder[phase]
      BY <1>1 DEF RestoreOrder, Categories
<1>3. PICK names \in SUBSET Names[c] :
         \/ disk' = [disk EXCEPT ![c] = Restored(c, names)]
         \/ \E n \in Names[c] \ names :
               disk' = [disk EXCEPT ![c] = [Restored(c, names) EXCEPT ![n] = Empty]]
      BY <1>2 DEF RestoreFails
<1>4. /\ DOMAIN disk' = Categories /\ disk'[c] \in Files(c)
      /\ \A d \in Categories \ {c} : disk'[d] = disk[d]
  <2>1. Restored(c, names) \in Files(c)
        BY <1>1, RestoredFiles DEF TypeOK
  <2>2. \A n \in Names[c] : [Restored(c, names) EXCEPT ![n] = Empty] \in Files(c)
        BY <2>1 DEF Files, Values
  <2>3. QED
        BY <1>1, <1>3, <2>1, <2>2 DEF TypeOK
<1>5. Record(ord, allowed)
      BY DEF RestoreFails
<1>6. ord \in [Categories -> BOOLEAN]
  <2>1. \A d \in Categories :
           (/\ orderly[d]
            /\ Unrestored(d) => disk'[d] = Restored(d, Names[d])) \in BOOLEAN
        OBVIOUS
  <2>2. QED
        BY <2>1
<1>7. \A d \in Categories :
         ord[d] => orderly[d] /\ (Unrestored(d) => disk'[d] = Restored(d, Names[d]))
      OBVIOUS
<1> HIDE DEF ord
<1>8. /\ orderly' = ord /\ orderly' \in [Categories -> BOOLEAN]
      /\ DOMAIN allowed' = Categories
      /\ \A d \in Categories : allowed'[d] \in [Names[d] -> SUBSET Values]
      /\ \A d \in Categories : orderly'[d] => allowed'[d] = allowed[d]
  <2>1. \A d \in Categories : allowed[d] \in [Names[d] -> SUBSET Values]
        BY <1>1 DEF TypeOK
  <2>2. QED
        BY <2>1, <1>5, <1>6, RecordEffect
<1>9. TypeOK'
  <2>1. \A d \in Categories : disk'[d] \in Files(d)
        BY <1>1, <1>4 DEF TypeOK
  <2>2. QED
        BY <2>1, <1>1, <1>4, <1>8 DEF TypeOK, Serving
<1>10. \A r \in Requests : At(r, "idle")'
       BY <1>1 DEF Inv, DirectoryAllowed, Serving, At
<1>11. CleanUndisturbed'
       BY <1>10 DEF CleanUndisturbed
<1>12. AnsweredIsDurable'
       BY <1>1, <1>7, <1>8 DEF Inv, AnsweredIsDurable, Data
<1>13. DirectoryAllowed'
  <2>1. ASSUME NEW d \in Categories, orderly'[d], NEW n \in Names[d]
        PROVE  disk'[d][n] \in allowed'[d][n]
    <3>1. orderly[d] /\ allowed'[d] = allowed[d]
          BY <2>1, <1>7, <1>8
    <3>2. CASE Unrestored(d)
          BY <3>1, <3>2, <2>1, <1>7, <1>8, RestoredAllowed
    <3>3. CASE ~Unrestored(d)
      <4>1. d # c
            BY <3>3, <1>1, <1>2 DEF Unrestored
      <4>2. disk[d][n] \in allowed[d][n]
            BY <3>1, <3>3 DEF Inv, DirectoryAllowed
      <4>3. QED
            BY <4>1, <4>2, <3>1, <1>4
    <3>4. QED
          BY <3>2, <3>3
  <2>2. QED
        BY <2>1, <1>1, <1>10 DEF DirectoryAllowed
<1>14. QED
       BY <1>9, <1>11, <1>12, <1>13 DEF Inv
-----------------------------------------------------------------------------
(* The invariant holds before the first start.                             *)
LEMMA InitInv == Init => Inv
<1> SUFFICES ASSUME Init PROVE Inv
    OBVIOUS
<1>1. \A c \in Categories : NoFiles(c) \in Files(c)
      BY DEF NoFiles, Files, Values
<1>2. \A r \in Requests : req[r] = Idle /\ At(r, "idle")
      BY DEF Init, Idle, At
<1>3. /\ DOMAIN disk = Categories /\ DOMAIN cm = Categories /\ DOMAIN allowed = Categories
      /\ DOMAIN req = Requests /\ phase = 1 /\ orderly \in [Categories -> BOOLEAN]
      BY DEF Init
<1>4. \A c \in Categories : /\ disk[c] = NoFiles(c) /\ Data(c) = NoFiles(c) /\ cm[c] = Missing
                            /\ allowed[c] = [n \in Names[c] |-> {NoFile}]
  <2>1. ASSUME NEW c \in Categories
        PROVE  /\ disk[c] = NoFiles(c) /\ cm[c] = Missing
               /\ allowed[c] = [n \in Names[c] |-> {NoFile}]
    <3>1. /\ disk = [d \in Categories |-> NoFiles(d)] /\ cm = [d \in Categories |-> Missing]
          /\ allowed = [d \in Categories |-> [n \in Names[d] |-> {NoFile}]]
          BY DEF Init
    <3>2. QED
          BY <3>1
  <2>2. \A c \in Categories : Data(c) = NoFiles(c)
        BY <2>1 DEF Data
  <2>3. QED
        BY <2>1, <2>2
<1>5. ASSUME NEW c \in Categories, NEW n \in Names[c] PROVE NoFiles(c)[n] \in allowed[c][n]
  <2>1. NoFiles(c)[n] = NoFile
        BY DEF NoFiles
  <2>2. allowed[c][n] = {NoFile}
        BY <1>4
  <2>3. QED
        BY <2>1, <2>2
<1>6. TypeOK
  <2>1. \A c \in Categories : [n \in Names[c] |-> {NoFile}] \in [Names[c] -> SUBSET Values]
        BY DEF Values
  <2>2. \A c \in Categories : allowed[c] \in [Names[c] -> SUBSET Values]
        BY <2>1, <1>4
  <2>3. phase \in 1..Serving
        BY <1>3 DEF Serving
  <2>4. QED
        BY <2>2, <2>3, <1>1, <1>2, <1>3, <1>4 DEF TypeOK
<1>7. AnsweredIsDurable
      BY <1>4, <1>5 DEF AnsweredIsDurable
<1>8. CleanUndisturbed
      BY <1>2 DEF CleanUndisturbed
<1>9. DirectoryAllowed
      BY <1>2, <1>4, <1>5 DEF DirectoryAllowed
<1>10. QED
       BY <1>6, <1>7, <1>8, <1>9 DEF Inv

(* The invariant is one of every step.                                     *)
LEMMA NextInv == Inv /\ [Next]_vars => Inv'
<1> SUFFICES ASSUME Inv, [Next]_vars PROVE Inv'
    OBVIOUS
<1>1. ASSUME NEW r \in Requests, Handle(r) PROVE Inv'
  <2>1. CASE \E c \in Categories : \E n \in Names[c], v \in Contents \cup {NoFile} : Begin(r, c, n, v)
        BY <2>1, BeginInv
  <2>2. CASE Truncate(r)
        BY <2>2, TruncateInv
  <2>3. CASE Fill(r)
        BY <2>3, FillInv
  <2>4. CASE FillRemoved(r)
        BY <2>4, FillRemovedInv
  <2>5. CASE Remove(r)
        BY <2>5, RemoveInv
  <2>6. CASE ListDir(r)
        BY <2>6, ListDirInv
  <2>7. CASE ReadFile(r)
        BY <2>7, ReadFileInv
  <2>8. CASE GetMap(r)
        BY <2>8, GetMapInv
  <2>9. CASE Apply(r)
        BY <2>9, ApplyInv
  <2>10. CASE ApplyUnanswered(r)
         BY <2>10, ApplyUnansweredInv
  <2>11. CASE Fail(r) \/ Respond(r)
         BY <2>11, EndInv
  <2>12. QED
         BY <1>1, <2>1, <2>2, <2>3, <2>4, <2>5, <2>6, <2>7, <2>8, <2>9, <2>10, <2>11 DEF Handle
<1>2. CASE UNCHANGED vars
  <2>1. /\ disk' = disk /\ cm' = cm /\ phase' = phase /\ req' = req
        /\ allowed' = allowed /\ orderly' = orderly
        BY <1>2 DEF vars
  <2>2. TypeOK'
        BY <2>1 DEF Inv, TypeOK
  <2>3. AnsweredIsDurable'
        BY <2>1 DEF Inv, AnsweredIsDurable, Data
  <2>4. CleanUndisturbed'
    <3>1. ASSUME NEW r \in Requests, ~At(r, "idle"), req[r].clean
          PROVE  InFlight(req[r].cat)' = {r} /\ Aligned(r)'
          BY <2>1, <3>1 DEF Inv, CleanUndisturbed, InFlight, Aligned, At
    <3>2. QED
          BY <2>1, <3>1 DEF CleanUndisturbed, At
  <2>5. DirectoryAllowed'
        BY <2>1 DEF Inv, DirectoryAllowed, Leaves, Unrestored, At
  <2>6. QED
        BY <2>2, <2>3, <2>4, <2>5 DEF Inv
<1>3. QED
      BY <1>1, <1>2, CrashInv, RestoreCategoryInv, RestoreFailsInv DEF Next

(* Every state the runner's file store reaches satisfies the invariant:    *)
(* whatever requests overlap, fail or lose their answers, wherever the     *)
(* process or its pod ends, and however far a restore comes.               *)
THEOREM InvHolds == Spec => []Inv
BY InitInv, NextInv, PTL DEF Spec

(* The histories and the records of requests keep their types.             *)
THEOREM TypeCorrect == Spec => []TypeOK
<1>1. Inv => TypeOK
      BY DEF Inv
<1>2. QED
      BY <1>1, InvHolds, PTL

(* An answered upload or delete is what the ConfigMap says, for any number *)
(* of requests, crashes and restarts, unless one of the three events that  *)
(* end `orderly' hit its category (filestore/store.go has no lock and      *)
(* RestoreFromConfigMaps returns at the first error).                      *)
THEOREM Durable == Spec => []AnsweredIsDurable
<1>1. Inv => AnsweredIsDurable
      BY DEF Inv
<1>2. QED
      BY <1>1, InvHolds, PTL

(* A request that ran alone and read every file leaves ConfigMap and       *)
(* directory equal, whatever failed before it.                             *)
THEOREM Aligns == Spec => []SuccessAligns
<1>1. ASSUME Inv, NEW r \in Requests, At(r, "ok"), req[r].clean
      PROVE  cm[req[r].cat] = disk[req[r].cat]
  <2>1. Aligned(r)
        BY <1>1 DEF Inv, CleanUndisturbed, At
  <2>2. QED
        BY <2>1, <1>1 DEF Aligned
<1>2. Inv => SuccessAligns
      BY <1>1 DEF SuccessAligns
<1>3. QED
      BY <1>2, InvHolds, PTL
=============================================================================
