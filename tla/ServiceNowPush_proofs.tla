------------------------ MODULE ServiceNowPush_proofs ------------------------
(***************************************************************************)
(* Theorems about ServiceNowPush for any pushes, identities, histories of  *)
(* the instance and faults, whether the pushes overlap or not.             *)
(***************************************************************************)
EXTENDS ServiceNowPush, SequenceTheorems, TLAPS

-----------------------------------------------------------------------------
(* The inductive invariant *)

Attachments == [record : Nat, name : Files]

Messages == [push : Pushes, op : Waiting, record : Nat, n : Nat]

\* Types of the instance, the wire and the pushes.
TypeOK ==
    /\ records \in Seq(Record) /\ files \in Seq(Attachments)
    /\ rewriting \in BOOLEAN
    /\ wire \subseteq Messages
    /\ pc \in [Pushes -> PCs]
    /\ ref \in [Pushes -> Nat] /\ target \in [Pushes -> Nat] /\ attempt \in [Pushes -> Nat]
    /\ action \in [Pushes -> {"none", "created", "updated", "unchanged"}]
    /\ file \in [Pushes -> Nat]

\* Push p has created a record.
Created(p) == \E i \in DOMAIN records : records[i].creator = p

\* Past the read-back.
Past(p) == pc[p] \in {"confirm", "find", "upload", "uploading", "recheck", "done"}

\* Where a push is tells what it has sent: nothing before its lookup, one
\* creation at most, updates of its target only.
Sent(p) ==
    /\ pc[p] \in {"idle", "lookup", "post"} => ~Created(p) /\ \A m \in wire : m.push # p
    /\ pc[p] \in {"post", "posting"} => action[p] = "created"
    /\ pc[p] \in {"patch", "patching"} => action[p] = "updated"
    /\ pc[p] \in {"patch", "patching", "verify"} \/ Past(p) => target[p] \in DOMAIN records
    /\ \A m \in wire : m.push = p /\ m.op = "posting" =>
          /\ action[p] = "created" /\ ~Created(p)
          /\ \A n \in wire : n.push = p /\ n.op = "posting" => n = m
    /\ \A m \in wire : m.push = p /\ m.op = "patching" =>
          action[p] = "updated" /\ m.record = target[p] /\ m.record \in DOMAIN records

\* What the read-back has seen: its own write is stored as it was sent, and on
\* an instance that rewrites it did not write.
Seen(p) ==
    /\ Past(p) /\ records[target[p]].by = p => Holds(target[p], Payload(p))
    /\ rewriting /\ Past(p) => action[p] = "unchanged"
    /\ rewriting /\ pc[p] = "verify" /\ action[p] # "unchanged" =>
           records[target[p]].content = Edited

\* The attachment a push names is there.
Filed(p) == pc[p] = "done" /\ AttachOf[p] => file[p] \in Attached(p)

Mine(p) == Sent(p) /\ Seen(p) /\ Filed(p)

IInv ==
    /\ TypeOK
    /\ \A p \in Pushes : Mine(p)
    /\ CreatesAtMostOne
    /\ AttachedOnce

\* A step of a push other than the answer to a write.
Quiet(p) ==
    \/ Start(p)
    \/ LookupRefuses(p) \/ LookupFinds(p) \/ LookupFindsNone(p)
    \/ Send(p) \/ Refused(p) \/ Broken(p) \/ ReadFails(p)
    \/ Verify(p) \/ Confirm(p) \/ FindFile(p) \/ Recheck(p)

-----------------------------------------------------------------------------
(* What the instance does *)

\* What is stored of a push is a record that it wrote.
LEMMA StoreFacts ==
    ASSUME TypeOK, NEW p \in Pushes, NEW creator \in Pushes \cup {Nobody}
    PROVE  /\ Store(p, creator) \in Record
           /\ Store(p, creator).by = p /\ Store(p, creator).creator = creator
           /\ rewriting => Store(p, creator).content = Edited
           /\ ~rewriting => Store(p, creator).content = Payload(p).content
           /\ Store(p, creator).corr = Payload(p).corr
BY PushesAssumption DEF TypeOK, Store, Payload, Record

\* A write that is processed creates a record, rewrites one or adds a file.
LEMMA AppliedEffect ==
    ASSUME TypeOK, NEW m \in wire, Applied(m),
           m.op = "patching" => m.record \in DOMAIN records
    PROVE  /\ records' \in Seq(Record) /\ DOMAIN records \subseteq DOMAIN records'
           /\ m.op = "posting" =>
                 /\ DOMAIN records' = DOMAIN records \cup {Len(records) + 1}
                 /\ Len(records') = Len(records) + 1 /\ Len(records) + 1 \notin DOMAIN records
                 /\ records'[Len(records) + 1] = Store(m.push, m.push)
                 /\ \A i \in DOMAIN records : records'[i] = records[i]
           /\ m.op = "patching" =>
                 /\ DOMAIN records' = DOMAIN records
                 /\ records'[m.record] = Store(m.push, records[m.record].creator)
                 /\ \A i \in DOMAIN records : i # m.record => records'[i] = records[i]
           /\ m.op = "uploading" => records' = records
           /\ files' \in Seq(Attachments) /\ DOMAIN files \subseteq DOMAIN files'
           /\ \A i \in DOMAIN files : files'[i] = files[i]
           /\ wire' = wire \ {m} /\ rewriting' = rewriting
<1>1. /\ m.push \in Pushes /\ m.op \in Waiting /\ m.record \in Nat
      /\ records \in Seq(Record) /\ files \in Seq(Attachments)
  BY DEF TypeOK, Messages
<1>2. /\ DOMAIN records = 1..Len(records) /\ Len(records) \in Nat
      /\ DOMAIN files = 1..Len(files) /\ Len(files) \in Nat
      /\ \A i \in DOMAIN records : records[i] \in Record
  BY <1>1, LenProperties
<1>3. CASE m.op = "posting"
  <2> DEFINE e == Store(m.push, m.push)
  <2>1. e \in Record
    BY <1>1, StoreFacts
  <2> HIDE DEF e
  <2>2. /\ Append(records, e) \in Seq(Record) /\ Len(Append(records, e)) = Len(records) + 1
        /\ \A i \in 1..Len(records) : Append(records, e)[i] = records[i]
        /\ Append(records, e)[Len(records) + 1] = e
    BY <1>1, <2>1, AppendProperties
  <2>3. records' = Append(records, e) /\ files' = files
    BY <1>3 DEF Applied, e
  <2>4. DOMAIN records' = 1..(Len(records) + 1)
    BY <2>2, <2>3, LenProperties
  <2>5. wire' = wire \ {m} /\ rewriting' = rewriting
    BY DEF Applied
  <2>6. QED
    BY <1>1, <1>2, <1>3, <2>2, <2>3, <2>4, <2>5 DEF e
<1>4. CASE m.op = "patching"
  <2> DEFINE e == Store(m.push, records[m.record].creator)
  <2>1. e \in Record
    BY <1>1, <1>2, <1>4, StoreFacts DEF Record
  <2> HIDE DEF e
  <2>2. records' = [records EXCEPT ![m.record] = e] /\ files' = files
    BY <1>4 DEF Applied, e
  <2>3. /\ [records EXCEPT ![m.record] = e] \in Seq(Record)
        /\ DOMAIN [records EXCEPT ![m.record] = e] = DOMAIN records
        /\ \A i \in DOMAIN records :
              [records EXCEPT ![m.record] = e][i] = IF i = m.record THEN e ELSE records[i]
    BY <1>1, <1>2, <1>4, <2>1, ExceptSeq
  <2>4. wire' = wire \ {m} /\ rewriting' = rewriting
    BY DEF Applied
  <2>5. QED
    BY <1>1, <1>4, <2>2, <2>3, <2>4 DEF e
<1>5. CASE m.op = "uploading"
  <2> DEFINE e == [record |-> m.record, name |-> FileOf[m.push]]
  <2>1. e \in Attachments
    BY <1>1, PushesAssumption DEF Attachments
  <2> HIDE DEF e
  <2>2. /\ Append(files, e) \in Seq(Attachments) /\ Len(Append(files, e)) = Len(files) + 1
        /\ \A i \in 1..Len(files) : Append(files, e)[i] = files[i]
    BY <1>1, <2>1, AppendProperties
  <2>3. records' = records /\ files' = Append(files, e)
    BY <1>5 DEF Applied, e
  <2>4. DOMAIN files' = 1..(Len(files) + 1)
    BY <2>2, <2>3, LenProperties
  <2>5. wire' = wire \ {m} /\ rewriting' = rewriting
    BY DEF Applied
  <2>6. QED
    BY <1>1, <1>2, <1>5, <2>2, <2>3, <2>4, <2>5
<1>6. QED
  BY <1>1, <1>3, <1>4, <1>5 DEF Waiting

\* The locals of a push stay as they are.
Same(q) ==
    /\ pc'[q] = pc[q] /\ target'[q] = target[q] /\ action'[q] = action[q] /\ file'[q] = file[q]

\* A push that is not answered by it keeps what it knows when a write of any
\* push is processed.
LEMMA AppliedKeeps ==
    ASSUME IInv, NEW m \in wire, Applied(m), NEW q \in Pushes, Same(q)
    PROVE  Mine(q)'
<1>1. TypeOK /\ Mine(q) /\ m.push \in Pushes /\ m.op \in Waiting
  BY DEF IInv, TypeOK, Messages
<1>2. Mine(m.push)
  BY <1>1 DEF IInv
<1>3. m.op = "patching" => m.record \in DOMAIN records
  BY <1>2 DEF Mine, Sent
<1>4. /\ DOMAIN records \subseteq DOMAIN records'
      /\ m.op = "posting" =>
            /\ DOMAIN records' = DOMAIN records \cup {Len(records) + 1}
            /\ Len(records) + 1 \notin DOMAIN records
            /\ records'[Len(records) + 1] = Store(m.push, m.push)
            /\ \A i \in DOMAIN records : records'[i] = records[i]
      /\ m.op = "patching" =>
            /\ DOMAIN records' = DOMAIN records
            /\ records'[m.record] = Store(m.push, records[m.record].creator)
            /\ \A i \in DOMAIN records : i # m.record => records'[i] = records[i]
      /\ m.op = "uploading" => records' = records
      /\ DOMAIN files \subseteq DOMAIN files'
      /\ \A i \in DOMAIN files : files'[i] = files[i]
      /\ wire' = wire \ {m} /\ rewriting' = rewriting
  BY <1>1, <1>3, AppliedEffect
<1>5. /\ Store(m.push, m.push).by = m.push /\ Store(m.push, m.push).creator = m.push
      /\ m.op = "patching" =>
            LET e == Store(m.push, records[m.record].creator)
            IN  /\ e.by = m.push /\ e.creator = records[m.record].creator
                /\ rewriting => e.content = Edited
                /\ ~rewriting => e.content = Payload(m.push).content
                /\ e.corr = Payload(m.push).corr
  <2>1. \A i \in DOMAIN records : records[i].creator \in Pushes \cup {Nobody}
    <3>1. records \in Seq(Record)
      BY <1>1 DEF TypeOK
    <3>2. \A i \in DOMAIN records : records[i] \in Record
      BY <3>1, LenProperties
    <3>3. QED
      BY <3>2 DEF Record
  <2>2. ASSUME m.op = "patching"
        PROVE  LET e == Store(m.push, records[m.record].creator)
               IN  /\ e.by = m.push /\ e.creator = records[m.record].creator
                   /\ rewriting => e.content = Edited
                   /\ ~rewriting => e.content = Payload(m.push).content
                   /\ e.corr = Payload(m.push).corr
    <3>1. records[m.record].creator \in Pushes \cup {Nobody}
      BY <1>3, <2>1, <2>2
    <3>2. QED
      BY <1>1, <3>1, StoreFacts
  <2>3. Store(m.push, m.push).by = m.push /\ Store(m.push, m.push).creator = m.push
    BY <1>1, StoreFacts
  <2>4. QED
    BY <2>2, <2>3
<1>6. m.op \in {"posting", "patching", "uploading"}
  BY <1>1 DEF Waiting
<1>7. Past(q)' = Past(q)
  BY DEF Past, Same
<1>8. Created(q)' => Created(q) \/ (m.op = "posting" /\ m.push = q)
  BY <1>4, <1>5, <1>6 DEF Created
<1>9. Sent(q)'
  <2>1. ASSUME NEW n \in wire', n.push = q, n.op = "posting"
        PROVE  /\ action'[q] = "created" /\ ~Created(q)'
               /\ \A k \in wire' : k.push = q /\ k.op = "posting" => k = n
    BY <1>1, <1>4, <1>8, <2>1 DEF Mine, Sent, Same
  <2>2. ASSUME NEW n \in wire', n.push = q, n.op = "patching"
        PROVE  action'[q] = "updated" /\ n.record = target'[q] /\ n.record \in DOMAIN records'
    BY <1>1, <1>4, <2>2 DEF Mine, Sent, Same
  <2>3. pc'[q] \in {"idle", "lookup", "post"} => ~Created(q)' /\ \A n \in wire' : n.push # q
    BY <1>1, <1>4, <1>8 DEF Mine, Sent, Same
  <2>4. pc'[q] \in {"patch", "patching", "verify"} \/ Past(q)' => target'[q] \in DOMAIN records'
    BY <1>1, <1>4, <1>7 DEF Mine, Sent, Same
  <2>5. /\ pc'[q] \in {"post", "posting"} => action'[q] = "created"
        /\ pc'[q] \in {"patch", "patching"} => action'[q] = "updated"
    BY <1>1 DEF Mine, Sent, Same
  <2>6. QED
    BY <2>1, <2>2, <2>3, <2>4, <2>5 DEF Sent
<1>10. Seen(q)'
  <2>1. pc[q] = "verify" \/ Past(q) => target[q] \in DOMAIN records
    BY <1>1 DEF Mine, Sent
  <2>2. CASE m.op = "patching" /\ m.record = target[q]
    <3>1. m.push = q => action[q] = "updated"
      BY <1>1, <2>2 DEF Mine, Sent
    <3>2. records'[target[q]].by = m.push
      BY <1>4, <1>5, <2>2
    <3>3. ASSUME m.push = q, Past(q)
          PROVE  records'[target[q]].corr = Payload(q).corr
                 /\ records'[target[q]].content = Payload(q).content
      BY <1>1, <1>4, <1>5, <2>2, <3>1, <3>3 DEF Mine, Seen
    <3>4. QED
      BY <1>1, <1>4, <1>5, <1>7, <2>2, <3>1, <3>2, <3>3 DEF Mine, Seen, Same, Holds, Payload
  <2>3. CASE ~(m.op = "patching" /\ m.record = target[q])
    <3>1. target[q] \in DOMAIN records => records'[target[q]] = records[target[q]]
      BY <1>4, <1>6, <2>3
    <3>2. QED
      BY <1>1, <1>4, <1>7, <2>1, <3>1 DEF Mine, Seen, Same, Holds, Payload
  <2>4. QED
    BY <2>2, <2>3
<1>11. Filed(q)'
  BY <1>1, <1>4 DEF Mine, Filed, Attached, Same
<1>12. QED
  BY <1>9, <1>10, <1>11 DEF Mine

\* And when nothing of it happens in the instance or on the wire.
LEMMA QuietKeeps ==
    ASSUME IInv, NEW q \in Pushes, Same(q), UNCHANGED table,
           \A m \in wire' : m.push = q => m \in wire
    PROVE  Mine(q)'
<1>1. Mine(q)
  BY DEF IInv
<1>2. Past(q)' = Past(q) /\ Created(q)' = Created(q)
  BY DEF Past, Created, Same, table
<1>3. Sent(q)'
  BY <1>1, <1>2 DEF Mine, Sent, Same, table
<1>4. Seen(q)' /\ Filed(q)'
  BY <1>1, <1>2 DEF Mine, Seen, Filed, Holds, Payload, Attached, Same, table
<1>5. QED
  BY <1>3, <1>4 DEF Mine

\* And when another editor changes a record.
LEMMA EditKeeps ==
    ASSUME IInv, Edit, NEW q \in Pushes
    PROVE  Mine(q)'
<1>1. PICK i \in DOMAIN records :
         records' = [records EXCEPT ![i].content = Edited, ![i].by = Editor]
  BY DEF Edit
<1>2. UNCHANGED <<files, rewriting, wire, pc, target, action, file>> /\ Mine(q)
      /\ Editor \notin Pushes /\ records \in Seq(Record)
  BY PushesAssumption DEF Edit, IInv, TypeOK
<1>3. /\ DOMAIN records' = DOMAIN records
      /\ \A j \in DOMAIN records : j # i => records'[j] = records[j]
      /\ records'[i].creator = records[i].creator /\ records'[i].by = Editor
      /\ records'[i].content = Edited
  <2>1. records[i] \in Record
    BY <1>2, LenProperties
  <2>2. QED
    BY <1>1, <2>1 DEF Record
<1>4. Past(q)' = Past(q) /\ Created(q)' = Created(q)
  BY <1>2, <1>3 DEF Past, Created
<1>5. Sent(q)'
  BY <1>2, <1>3, <1>4 DEF Mine, Sent
<1>6. Seen(q)'
  <2>1. pc[q] = "verify" \/ Past(q) => target[q] \in DOMAIN records
    BY <1>2 DEF Mine, Sent
  <2>2. QED
    BY <1>2, <1>3, <1>4, <2>1 DEF Mine, Seen, Holds, Payload
<1>7. Filed(q)'
  BY <1>2 DEF Mine, Filed, Attached
<1>8. QED
  BY <1>5, <1>6, <1>7 DEF Mine

-----------------------------------------------------------------------------
(* What a push does *)

\* Its steps leave the locals of other pushes alone.
LEMMA OthersKept ==
    ASSUME TypeOK, NEW p \in Pushes, Quiet(p) \/ Answered(p), NEW q \in Pushes \ {p}
    PROVE  Same(q)
<1>1. /\ pc \in [Pushes -> PCs] /\ target \in [Pushes -> Nat] /\ file \in [Pushes -> Nat]
      /\ action \in [Pushes -> {"none", "created", "updated", "unchanged"}]
  BY DEF TypeOK
<1> USE DEF Same
<1>2. QED
  <2>1. CASE Start(p)
    BY <1>1, <2>1 DEF Start, Goto, Local, Move, table
  <2>2. CASE LookupRefuses(p)
    BY <1>1, <2>2 DEF LookupRefuses, Goto, Local, Move, table
  <2>3. CASE LookupFinds(p)
    BY <1>1, <2>3 DEF LookupFinds, Goto, Local, Move, table
  <2>4. CASE LookupFindsNone(p)
    BY <1>1, <2>4 DEF LookupFindsNone, Goto, Local, Move, table
  <2>5. CASE Send(p)
    BY <1>1, <2>5 DEF Send, Goto, Local, Move, table, Wait
  <2>6. CASE Refused(p)
    BY <1>1, <2>6 DEF Refused, Goto, Local, Move, table, Retry, MayRetry, Waiting
  <2>7. CASE Broken(p)
    BY <1>1, <2>7 DEF Broken, Goto, Local, Move, table
  <2>8. CASE ReadFails(p)
    BY <1>1, <2>8 DEF ReadFails, Goto, Local, Move, table
  <2>9. CASE Verify(p)
    BY <1>1, <2>9 DEF Verify, Goto, Local, Move, table
  <2>10. CASE Confirm(p)
    BY <1>1, <2>10 DEF Confirm, Goto, Local, Move, table
  <2>11. CASE FindFile(p)
    BY <1>1, <2>11 DEF FindFile, Goto, Local, Move, table
  <2>12. CASE Recheck(p)
    BY <1>1, <2>12 DEF Recheck, Goto, Local, Move, table
  <2>13. CASE Answered(p)
    BY <1>1, <2>13 DEF Answered, Goto, Local, Move, table
  <2>14. QED
    BY <2>1, <2>2, <2>3, <2>4, <2>5, <2>6, <2>7, <2>8, <2>9, <2>10, <2>11, <2>12, <2>13 DEF
       Quiet

\* A step other than the answer to a write leaves the instance alone, and only
\* a send puts something on the wire.
LEMMA QuietFrame ==
    ASSUME NEW p \in Pushes, Quiet(p)
    PROVE  /\ UNCHANGED table
           /\ \/ wire' \subseteq wire
              \/ Send(p)
<1>1. QED
  <2>1. CASE Start(p)
    BY <2>1 DEF Start, Goto, Local, Move, table
  <2>2. CASE LookupRefuses(p)
    BY <2>2 DEF LookupRefuses, Goto, Local, Move, table
  <2>3. CASE LookupFinds(p)
    BY <2>3 DEF LookupFinds, Goto, Local, Move, table
  <2>4. CASE LookupFindsNone(p)
    BY <2>4 DEF LookupFindsNone, Goto, Local, Move, table
  <2>5. CASE Send(p)
    BY <2>5 DEF Send, Goto, Local, Move, table, Wait
  <2>6. CASE Refused(p)
    BY <2>6 DEF Refused, Goto, Local, Move, table, Retry, MayRetry, Waiting
  <2>7. CASE Broken(p)
    BY <2>7 DEF Broken, Goto, Local, Move, table
  <2>8. CASE ReadFails(p)
    BY <2>8 DEF ReadFails, Goto, Local, Move, table
  <2>9. CASE Verify(p)
    BY <2>9 DEF Verify, Goto, Local, Move, table
  <2>10. CASE Confirm(p)
    BY <2>10 DEF Confirm, Goto, Local, Move, table
  <2>11. CASE FindFile(p)
    BY <2>11 DEF FindFile, Goto, Local, Move, table
  <2>12. CASE Recheck(p)
    BY <2>12 DEF Recheck, Goto, Local, Move, table
  <2>13. QED
    BY <2>1, <2>2, <2>3, <2>4, <2>5, <2>6, <2>7, <2>8, <2>9, <2>10, <2>11, <2>12 DEF Quiet

\* What the push itself knows after such a step.
LEMMA QuietOwn ==
    ASSUME IInv, NEW p \in Pushes, Quiet(p)
    PROVE  Mine(p)'
<1>1. /\ pc \in [Pushes -> PCs] /\ target \in [Pushes -> Nat] /\ file \in [Pushes -> Nat]
      /\ action \in [Pushes -> {"none", "created", "updated", "unchanged"}]
      /\ attempt \in [Pushes -> Nat]
  BY DEF IInv, TypeOK
<1>2. Mine(p)
  BY DEF IInv
<1>3. UNCHANGED <<records, files, rewriting>>
  BY QuietFrame DEF table
<1>4. Created(p)' = Created(p)
  BY <1>3 DEF Created
<1>5. Matches(p) \subseteq DOMAIN records /\ (rewriting => Payload(p).content # Edited)
  BY PushesAssumption DEF Matches, Payload
<1>6. Sent(p)'
  <2>1. CASE Start(p)
    BY <1>1, <1>2, <1>3, <1>4, <1>5, <2>1 DEF Start, Goto, Local, Move, table, Mine, Sent,
       Past
  <2>2. CASE LookupRefuses(p)
    BY <1>1, <1>2, <1>3, <1>4, <1>5, <2>2 DEF LookupRefuses, Goto, Local, Move, table, Mine,
       Sent, Past
  <2>3. CASE LookupFinds(p)
    BY <1>1, <1>2, <1>3, <1>4, <1>5, <2>3 DEF LookupFinds, Goto, Local, Move, table, Mine,
       Sent, Past
  <2>4. CASE LookupFindsNone(p)
    BY <1>1, <1>2, <1>3, <1>4, <1>5, <2>4 DEF LookupFindsNone, Goto, Local, Move, table, Mine,
       Sent, Past
  <2>5. CASE Send(p)
    BY <1>1, <1>2, <1>3, <1>4, <1>5, <2>5 DEF Send, Goto, Local, Move, table, Wait, Mine,
       Sent, Past
  <2>6. CASE Refused(p)
    BY <1>1, <1>2, <1>3, <1>4, <1>5, <2>6 DEF Refused, Goto, Local, Move, table, Retry,
       MayRetry, Waiting, Mine, Sent, Past
  <2>7. CASE Broken(p)
    BY <1>1, <1>2, <1>3, <1>4, <1>5, <2>7 DEF Broken, Goto, Local, Move, table, Mine, Sent,
       Past
  <2>8. CASE ReadFails(p)
    BY <1>1, <1>2, <1>3, <1>4, <1>5, <2>8 DEF ReadFails, Goto, Local, Move, table, Mine, Sent,
       Past
  <2>9. CASE Verify(p)
    BY <1>1, <1>2, <1>3, <1>4, <1>5, <2>9 DEF Verify, Goto, Local, Move, table, Mine, Sent,
       Past
  <2>10. CASE Confirm(p)
    BY <1>1, <1>2, <1>3, <1>4, <1>5, <2>10 DEF Confirm, Goto, Local, Move, table, Mine, Sent,
       Past
  <2>11. CASE FindFile(p)
    BY <1>1, <1>2, <1>3, <1>4, <1>5, <2>11 DEF FindFile, Goto, Local, Move, table, Mine, Sent,
       Past
  <2>12. CASE Recheck(p)
    BY <1>1, <1>2, <1>3, <1>4, <1>5, <2>12 DEF Recheck, Goto, Local, Move, table, Mine, Sent,
       Past
  <2>13. QED
    BY <2>1, <2>2, <2>3, <2>4, <2>5, <2>6, <2>7, <2>8, <2>9, <2>10, <2>11, <2>12 DEF Quiet
<1>7. Seen(p)'
  <2>1. CASE Start(p)
    BY <1>1, <1>2, <1>3, <1>5, <2>1 DEF Start, Goto, Local, Move, table, Mine, Seen, Past,
       Holds, Verified
  <2>2. CASE LookupRefuses(p)
    BY <1>1, <1>2, <1>3, <1>5, <2>2 DEF LookupRefuses, Goto, Local, Move, table, Mine, Seen,
       Past, Holds, Verified
  <2>3. CASE LookupFinds(p)
    BY <1>1, <1>2, <1>3, <1>5, <2>3 DEF LookupFinds, Goto, Local, Move, table, Mine, Seen,
       Past, Holds, Verified
  <2>4. CASE LookupFindsNone(p)
    BY <1>1, <1>2, <1>3, <1>5, <2>4 DEF LookupFindsNone, Goto, Local, Move, table, Mine, Seen,
       Past, Holds, Verified
  <2>5. CASE Send(p)
    BY <1>1, <1>2, <1>3, <1>5, <2>5 DEF Send, Goto, Local, Move, table, Wait, Mine, Seen,
       Past, Holds, Verified
  <2>6. CASE Refused(p)
    BY <1>1, <1>2, <1>3, <1>5, <2>6 DEF Refused, Goto, Local, Move, table, Retry, MayRetry,
       Waiting, Mine, Seen, Past, Holds, Verified
  <2>7. CASE Broken(p)
    BY <1>1, <1>2, <1>3, <1>5, <2>7 DEF Broken, Goto, Local, Move, table, Mine, Seen, Past,
       Holds, Verified
  <2>8. CASE ReadFails(p)
    BY <1>1, <1>2, <1>3, <1>5, <2>8 DEF ReadFails, Goto, Local, Move, table, Mine, Seen, Past,
       Holds, Verified
  <2>9. CASE Verify(p)
    BY <1>1, <1>2, <1>3, <1>5, <2>9 DEF Verify, Goto, Local, Move, table, Mine, Seen, Past,
       Holds, Verified
  <2>10. CASE Confirm(p)
    BY <1>1, <1>2, <1>3, <1>5, <2>10 DEF Confirm, Goto, Local, Move, table, Mine, Seen, Past,
       Holds, Verified
  <2>11. CASE FindFile(p)
    BY <1>1, <1>2, <1>3, <1>5, <2>11 DEF FindFile, Goto, Local, Move, table, Mine, Seen, Past,
       Holds, Verified
  <2>12. CASE Recheck(p)
    BY <1>1, <1>2, <1>3, <1>5, <2>12 DEF Recheck, Goto, Local, Move, table, Mine, Seen, Past,
       Holds, Verified
  <2>13. QED
    BY <2>1, <2>2, <2>3, <2>4, <2>5, <2>6, <2>7, <2>8, <2>9, <2>10, <2>11, <2>12 DEF Quiet
<1>8. Filed(p)'
  <2>1. CASE Start(p)
    BY <1>1, <1>2, <1>3, <2>1 DEF Start, Goto, Local, Move, table, Mine, Filed, Attached,
       SoleFile
  <2>2. CASE LookupRefuses(p)
    BY <1>1, <1>2, <1>3, <2>2 DEF LookupRefuses, Goto, Local, Move, table, Mine, Filed,
       Attached, SoleFile
  <2>3. CASE LookupFinds(p)
    BY <1>1, <1>2, <1>3, <2>3 DEF LookupFinds, Goto, Local, Move, table, Mine, Filed,
       Attached, SoleFile
  <2>4. CASE LookupFindsNone(p)
    BY <1>1, <1>2, <1>3, <2>4 DEF LookupFindsNone, Goto, Local, Move, table, Mine, Filed,
       Attached, SoleFile
  <2>5. CASE Send(p)
    BY <1>1, <1>2, <1>3, <2>5 DEF Send, Goto, Local, Move, table, Wait, Mine, Filed, Attached,
       SoleFile
  <2>6. CASE Refused(p)
    BY <1>1, <1>2, <1>3, <2>6 DEF Refused, Goto, Local, Move, table, Retry, MayRetry, Waiting,
       Mine, Filed, Attached, SoleFile
  <2>7. CASE Broken(p)
    BY <1>1, <1>2, <1>3, <2>7 DEF Broken, Goto, Local, Move, table, Mine, Filed, Attached,
       SoleFile
  <2>8. CASE ReadFails(p)
    BY <1>1, <1>2, <1>3, <2>8 DEF ReadFails, Goto, Local, Move, table, Mine, Filed, Attached,
       SoleFile
  <2>9. CASE Verify(p)
    BY <1>1, <1>2, <1>3, <2>9 DEF Verify, Goto, Local, Move, table, Mine, Filed, Attached,
       SoleFile
  <2>10. CASE Confirm(p)
    BY <1>1, <1>2, <1>3, <2>10 DEF Confirm, Goto, Local, Move, table, Mine, Filed, Attached,
       SoleFile
  <2>11. CASE FindFile(p)
    BY <1>1, <1>2, <1>3, <2>11 DEF FindFile, Goto, Local, Move, table, Mine, Filed, Attached,
       SoleFile
  <2>12. CASE Recheck(p)
    BY <1>1, <1>2, <1>3, <2>12 DEF Recheck, Goto, Local, Move, table, Mine, Filed, Attached,
       SoleFile
  <2>13. QED
    BY <2>1, <2>2, <2>3, <2>4, <2>5, <2>6, <2>7, <2>8, <2>9, <2>10, <2>11, <2>12 DEF Quiet
<1>9. QED
  BY <1>6, <1>7, <1>8 DEF Mine


\* And after the answer to its write.
LEMMA AnsweredOwn ==
    ASSUME IInv, NEW p \in Pushes, Answered(p)
    PROVE  Mine(p)' /\ pc'[p] \in {"verify", "recheck"}
<1>1. /\ pc \in [Pushes -> PCs] /\ target \in [Pushes -> Nat] /\ file \in [Pushes -> Nat]
      /\ records \in Seq(Record) /\ rewriting \in BOOLEAN /\ TypeOK /\ Mine(p)
  BY DEF IInv, TypeOK
<1>2. PICK m \in wire : m.push = p /\ pc[p] = m.op /\ Applied(m)
  BY DEF Answered, Awaited
<1>3. m.op = "patching" => m.record \in DOMAIN records /\ m.record = target[p]
  BY <1>1, <1>2 DEF Mine, Sent
<1>4. action' = action /\ m.op \in {"posting", "patching", "uploading"}
  BY <1>2 DEF Answered, Waiting
<1>5. /\ records' \in Seq(Record)
      /\ m.op = "posting" =>
            /\ DOMAIN records' = DOMAIN records \cup {Len(records) + 1}
            /\ Len(records') = Len(records) + 1
            /\ records'[Len(records) + 1] = Store(m.push, m.push)
      /\ m.op = "patching" =>
            /\ DOMAIN records' = DOMAIN records
            /\ records'[m.record] = Store(m.push, records[m.record].creator)
      /\ m.op = "uploading" => records' = records
      /\ wire' = wire \ {m} /\ rewriting' = rewriting
  BY <1>1, <1>2, <1>3, AppliedEffect
<1>6. CASE m.op = "posting"
  <2>1. pc'[p] = "verify" /\ target'[p] = Len(records) + 1 /\ action[p] = "created"
    BY <1>1, <1>2, <1>5, <1>6 DEF Answered, Goto, Move, Mine, Sent
  <2>2. rewriting => records'[Len(records) + 1].content = Edited
    BY <1>1, <1>2, <1>5, <1>6, StoreFacts
  <2>3. \A n \in wire' : n.push = p => n.op \notin {"posting", "patching"}
    BY <1>1, <1>2, <1>5, <1>6, <2>1 DEF Mine, Sent
  <2>4. QED
    BY <1>5, <1>6, <2>1, <2>2, <2>3 DEF Mine, Sent, Seen, Filed, Past
<1>7. CASE m.op = "patching"
  <2>1. pc'[p] = "verify" /\ target'[p] = target[p] /\ action[p] = "updated"
    BY <1>1, <1>2, <1>7 DEF Answered, Goto, Move, Mine, Sent
  <2>2. rewriting => records'[target[p]].content = Edited
    <3>1. records[m.record].creator \in Pushes \cup {Nobody}
      <4>1. records[m.record] \in Record
        BY <1>1, <1>3, <1>7, LenProperties
      <4>2. QED
        BY <4>1 DEF Record
    <3>2. QED
      BY <1>1, <1>2, <1>3, <1>5, <1>7, <3>1, StoreFacts
  <2>3. \A n \in wire' : n.push = p =>
           n.op # "posting" /\ (n.op = "patching" => n.record = target[p] /\ n.record \in DOMAIN records)
    BY <1>1, <1>2, <1>5, <1>7, <2>1 DEF Mine, Sent
  <2>4. QED
    BY <1>3, <1>4, <1>5, <1>7, <2>1, <2>2, <2>3 DEF Mine, Sent, Seen, Filed, Past
<1>8. CASE m.op = "uploading"
  <2>1. pc[p] = "uploading" /\ pc'[p] = "recheck" /\ target'[p] = target[p]
    BY <1>1, <1>2, <1>8 DEF Answered, Goto, Move
  <2>2. QED
    BY <1>1, <1>4, <1>5, <1>8, <2>1 DEF Mine, Sent, Seen, Filed, Past, Created, Holds, Payload
<1>9. QED
  BY <1>4, <1>6, <1>7, <1>8

\* A push that ends with evidence has found its attachment to be the only one.
LEMMA QuietDone ==
    ASSUME IInv, NEW p \in Pushes, Quiet(p), pc'[p] = "done", AttachOf[p]
    PROVE  Attached(p)' = {file'[p]}
<1>1. /\ pc \in [Pushes -> PCs] /\ file \in [Pushes -> Nat]
  BY DEF IInv, TypeOK
<1>2. UNCHANGED <<files, rewriting>> /\ (target' = target => Attached(p)' = Attached(p))
  BY QuietFrame DEF table, Attached
<1>3. QED
  <2>1. CASE Start(p)
    BY <1>1, <1>2, <2>1 DEF Start, Goto, Local, Move, table, SoleFile, Waiting
  <2>2. CASE LookupRefuses(p)
    BY <1>1, <1>2, <2>2 DEF LookupRefuses, Goto, Local, Move, table, SoleFile, Waiting
  <2>3. CASE LookupFinds(p)
    BY <1>1, <1>2, <2>3 DEF LookupFinds, Goto, Local, Move, table, SoleFile, Waiting
  <2>4. CASE LookupFindsNone(p)
    BY <1>1, <1>2, <2>4 DEF LookupFindsNone, Goto, Local, Move, table, SoleFile, Waiting
  <2>5. CASE Send(p)
    BY <1>1, <1>2, <2>5 DEF Send, Goto, Local, Move, table, Wait, SoleFile, Waiting
  <2>6. CASE Refused(p)
    BY <1>1, <1>2, <2>6 DEF Refused, Goto, Local, Move, table, Retry, MayRetry, Waiting,
       SoleFile, Waiting
  <2>7. CASE Broken(p)
    BY <1>1, <1>2, <2>7 DEF Broken, Goto, Local, Move, table, SoleFile, Waiting
  <2>8. CASE ReadFails(p)
    BY <1>1, <1>2, <2>8 DEF ReadFails, Goto, Local, Move, table, SoleFile, Waiting
  <2>9. CASE Verify(p)
    BY <1>1, <1>2, <2>9 DEF Verify, Goto, Local, Move, table, SoleFile, Waiting
  <2>10. CASE Confirm(p)
    BY <1>1, <1>2, <2>10 DEF Confirm, Goto, Local, Move, table, SoleFile, Waiting
  <2>11. CASE FindFile(p)
    BY <1>1, <1>2, <2>11 DEF FindFile, Goto, Local, Move, table, SoleFile, Waiting
  <2>12. CASE Recheck(p)
    BY <1>1, <1>2, <2>12 DEF Recheck, Goto, Local, Move, table, SoleFile, Waiting
  <2>13. QED
    BY <2>1, <2>2, <2>3, <2>4, <2>5, <2>6, <2>7, <2>8, <2>9, <2>10, <2>11, <2>12 DEF Quiet

-----------------------------------------------------------------------------
(* The invariant is inductive *)

\* What the instance processes creates no second record for a push.
LEMMA AppliedCreators ==
    ASSUME IInv, NEW m \in wire, Applied(m)
    PROVE  CreatesAtMostOne'
<1>1. TypeOK /\ m.push \in Pushes /\ m.op \in {"posting", "patching", "uploading"} /\ Mine(m.push)
      /\ CreatesAtMostOne
  BY DEF IInv, TypeOK, Messages, Waiting
<1>2. m.op = "patching" => m.record \in DOMAIN records
  BY <1>1 DEF Mine, Sent
<1>3. m.op = "posting" => ~Created(m.push)
  BY <1>1 DEF Mine, Sent
<1>4. /\ m.op = "posting" =>
            /\ DOMAIN records' = DOMAIN records \cup {Len(records) + 1}
            /\ records'[Len(records) + 1].creator = m.push
            /\ \A i \in DOMAIN records : records'[i] = records[i]
      /\ m.op = "patching" =>
            /\ DOMAIN records' = DOMAIN records
            /\ \A i \in DOMAIN records : records'[i].creator = records[i].creator
      /\ m.op = "uploading" => records' = records
  <2>1. ASSUME m.op = "patching"
        PROVE  Store(m.push, records[m.record].creator).creator = records[m.record].creator
    <3>1. records[m.record] \in Record
      BY <1>1, <1>2, <2>1, LenProperties DEF TypeOK
    <3>2. QED
      BY <1>1, <3>1, StoreFacts DEF Record
  <2>2. Store(m.push, m.push).creator = m.push
    BY <1>1, StoreFacts
  <2>3. QED
    BY <1>1, <1>2, <2>1, <2>2, AppliedEffect
<1>5. CASE m.op = "posting"
  BY <1>1, <1>3, <1>4, <1>5 DEF CreatesAtMostOne, Created
<1>6. CASE m.op # "posting"
  BY <1>1, <1>4, <1>6 DEF CreatesAtMostOne
<1>7. QED
  BY <1>5, <1>6

\* Pushes that had ended keep their record and their attachment.
LEMMA EndedKept ==
    ASSUME IInv, \A q \in Pushes : pc'[q] = "done" => pc[q] = "done" /\ Same(q)
    PROVE  AttachedOnce'
BY DEF IInv, AttachedOnce, Same

\* The types after a step of a push.
LEMMA QuietType ==
    ASSUME IInv, NEW p \in Pushes, Quiet(p)
    PROVE  TypeOK'
<1>1. TypeOK /\ records' = records /\ files' = files /\ rewriting' = rewriting
  BY QuietFrame DEF IInv, table
<1>2. Matches(p) \subseteq Nat /\ Attached(p) \subseteq Nat /\ References \subseteq Nat
  <2>1. DOMAIN records \subseteq Nat /\ DOMAIN files \subseteq Nat
    <3>1. records \in Seq(Record) /\ files \in Seq(Attachments)
      BY <1>1 DEF TypeOK
    <3>2. QED
      BY <3>1, LenProperties
  <2>2. QED
    BY <2>1, PushesAssumption DEF Matches, Attached
<1>3. QED
  <2>1. CASE Start(p)
    BY <1>1, <1>2, <2>1 DEF Start, Goto, Local, Move, table, TypeOK, PCs, Waiting, Reading,
       Ended
  <2>2. CASE LookupRefuses(p)
    BY <1>1, <1>2, <2>2 DEF LookupRefuses, Goto, Local, Move, table, TypeOK, PCs, Waiting,
       Reading, Ended
  <2>3. CASE LookupFinds(p)
    BY <1>1, <1>2, <2>3 DEF LookupFinds, Goto, Local, Move, table, TypeOK, PCs, Waiting,
       Reading, Ended
  <2>4. CASE LookupFindsNone(p)
    BY <1>1, <1>2, <2>4 DEF LookupFindsNone, Goto, Local, Move, table, TypeOK, PCs, Waiting,
       Reading, Ended
  <2>5. CASE Send(p)
    BY <1>1, <1>2, <2>5 DEF Send, Goto, Local, Move, table, Wait, TypeOK, PCs, Waiting,
       Reading, Ended, Messages
  <2>6. CASE Refused(p)
    <3>1. /\ pc[p] \in Waiting
          /\ wire' = wire \/ \E m \in wire : wire' = wire \ {m}
          /\ Retry(p) /\ UNCHANGED <<target, action, file>>
      BY <2>6 DEF Refused
    <3>2. wire' \subseteq Messages
      BY <1>1, <3>1 DEF TypeOK
    <3>3. pc' \in [Pushes -> PCs] /\ attempt' \in [Pushes -> Nat] /\ ref' = ref
      <4>1. CASE MayRetry(p)
        <5>1. pc' = [pc EXCEPT ![p] = "patch"] /\ attempt' = attempt /\ ref' = ref
          BY <3>1, <4>1 DEF Retry, MayRetry, Goto, Move
        <5>2. QED
          BY <1>1, <5>1 DEF TypeOK, PCs
      <4>2. CASE ~MayRetry(p)
        <5>1. /\ pc' = [pc EXCEPT ![p] = "failed"]
              /\ attempt' = [attempt EXCEPT ![p] = 0] /\ ref' = ref
          BY <3>1, <4>2 DEF Retry, Goto, Move
        <5>2. QED
          BY <1>1, <5>1 DEF TypeOK, PCs, Ended
      <4>3. QED
        BY <4>1, <4>2
    <3>4. QED
      BY <1>1, <3>1, <3>2, <3>3 DEF TypeOK
  <2>7. CASE Broken(p)
    BY <1>1, <1>2, <2>7 DEF Broken, Goto, Local, Move, table, TypeOK, PCs, Waiting, Reading,
       Ended
  <2>8. CASE ReadFails(p)
    BY <1>1, <1>2, <2>8 DEF ReadFails, Goto, Local, Move, table, TypeOK, PCs, Waiting,
       Reading, Ended
  <2>9. CASE Verify(p)
    BY <1>1, <1>2, <2>9 DEF Verify, Goto, Local, Move, table, TypeOK, PCs, Waiting, Reading,
       Ended
  <2>10. CASE Confirm(p)
    BY <1>1, <1>2, <2>10 DEF Confirm, Goto, Local, Move, table, TypeOK, PCs, Waiting, Reading,
       Ended
  <2>11. CASE FindFile(p)
    BY <1>1, <1>2, <2>11 DEF FindFile, Goto, Local, Move, table, TypeOK, PCs, Waiting,
       Reading, Ended
  <2>12. CASE Recheck(p)
    BY <1>1, <1>2, <2>12 DEF Recheck, Goto, Local, Move, table, TypeOK, PCs, Waiting, Reading,
       Ended
  <2>13. QED
    BY <2>1, <2>2, <2>3, <2>4, <2>5, <2>6, <2>7, <2>8, <2>9, <2>10, <2>11, <2>12 DEF Quiet

\* A write the instance applies leaves tables of records and attachments.
LEMMA AppliedType ==
    ASSUME IInv, NEW m \in wire, Applied(m)
    PROVE  /\ records' \in Seq(Record) /\ files' \in Seq(Attachments)
           /\ rewriting' \in BOOLEAN /\ wire' \subseteq Messages
           /\ Len(records') \in Nat /\ Len(files') \in Nat
<1>1. TypeOK /\ m.push \in Pushes /\ Mine(m.push)
  BY DEF IInv, TypeOK, Messages
<1>2. m.op = "patching" => m.record \in DOMAIN records
  BY <1>1 DEF Mine, Sent
<1>3. /\ records' \in Seq(Record) /\ files' \in Seq(Attachments)
      /\ wire' = wire \ {m} /\ rewriting' = rewriting
  BY <1>1, <1>2, AppliedEffect
<1>4. Len(records') \in Nat /\ Len(files') \in Nat
  BY <1>3, LenProperties
<1>5. QED
  BY <1>1, <1>3, <1>4 DEF TypeOK

\* Before the first push nothing has been sent, written or created by one.
LEMMA InitIInv == Init => IInv
<1> SUFFICES ASSUME Init
             PROVE  IInv
  OBVIOUS
<1>1. PICK h \in Histories : records = h.records /\ files = h.files
  BY DEF Init
<1>2. /\ records \in Seq(Record)
      /\ \A i \in DOMAIN records : records[i].by \notin Pushes /\ records[i].creator = Nobody
      /\ files \in Seq([record : DOMAIN records, name : Files])
  BY <1>1, InstanceAssumption
<1>3. files \in Seq(Attachments)
  <2>1. DOMAIN records \subseteq Nat
    BY <1>2, LenProperties
  <2>2. [record : DOMAIN records, name : Files] \subseteq Attachments
    BY <2>1 DEF Attachments
  <2>3. QED
    BY <1>2, <2>2, SeqMonotonic
<1>4. TypeOK
  BY <1>2, <1>3, InstanceAssumption DEF Init, TypeOK, PCs, NoRecord, NoFile
<1>5. \A p \in Pushes : Mine(p)
  BY <1>2, PushesAssumption DEF Init, Mine, Sent, Seen, Filed, Past, Created
<1>6. CreatesAtMostOne /\ AttachedOnce
  BY <1>2 DEF Init, CreatesAtMostOne, AttachedOnce
<1>7. QED
  BY <1>4, <1>5, <1>6 DEF IInv

\* A step of a push that applies no write preserves the invariant.
LEMMA QuietPreserves ==
    ASSUME IInv, NEW p \in Pushes, Quiet(p)
    PROVE  IInv'
<1>1. TypeOK' /\ Mine(p)' /\ UNCHANGED table
  BY QuietType, QuietOwn, QuietFrame
<1>2. ASSUME NEW q \in Pushes \ {p} PROVE Same(q) /\ Mine(q)'
  <2>1. Same(q)
    BY OthersKept DEF IInv
  <2>2. \A m \in wire' : m.push = q => m \in wire
    <3>1. CASE Send(p)
      BY <3>1 DEF Send
    <3>2. CASE wire' \subseteq wire
      BY <3>2
    <3>3. QED
      BY <3>1, <3>2, QuietFrame
  <2>3. QED
    BY <1>1, <2>1, <2>2, QuietKeeps
<1>3. CreatesAtMostOne'
  BY <1>1 DEF IInv, CreatesAtMostOne, table
<1>4. AttachedOnce'
  <2> SUFFICES ASSUME NEW a \in Pushes, NEW b \in Pushes,
                      pc'[a] = "done", pc'[b] = "done", AttachOf[a], AttachOf[b],
                      target'[a] = target'[b], FileOf[a] = FileOf[b]
               PROVE  file'[a] = file'[b]
    BY DEF AttachedOnce
  <2>1. Attached(a)' = Attached(b)'
    BY DEF Attached
  <2>2. file'[a] \in Attached(a)' /\ file'[b] \in Attached(b)'
    BY <1>1, <1>2 DEF Mine, Filed
  <2>3. CASE a = p \/ b = p
    <3>1. Attached(p)' = {file'[p]}
      BY <2>3, QuietDone
    <3>2. QED
      BY <2>1, <2>2, <2>3, <3>1
  <2>4. CASE a # p /\ b # p
    BY <1>2, <2>4 DEF IInv, AttachedOnce, Same
  <2>5. QED
    BY <2>3, <2>4
<1>5. QED
  BY <1>1, <1>2, <1>3, <1>4 DEF IInv

\* So does an answered write: its record, update or attachment is there.
LEMMA AnsweredPreserves ==
    ASSUME IInv, NEW p \in Pushes, Answered(p)
    PROVE  IInv'
<1>1. PICK m \in wire : m.push = p /\ Applied(m)
  BY DEF Answered
<1>2. \A q \in Pushes \ {p} : Same(q)
  BY OthersKept DEF IInv
<1>3. \A q \in Pushes : Mine(q)'
  BY <1>1, <1>2, AppliedKeeps, AnsweredOwn
<1>4. CreatesAtMostOne' /\ AttachedOnce'
  <2>1. pc'[p] # "done"
    BY AnsweredOwn
  <2>2. \A q \in Pushes : pc'[q] = "done" => pc[q] = "done" /\ Same(q)
    BY <1>2, <2>1 DEF Same
  <2>3. QED
    BY <1>1, <2>2, EndedKept, AppliedCreators
<1>5. TypeOK'
  <2>1. /\ records' \in Seq(Record) /\ files' \in Seq(Attachments)
        /\ rewriting' \in BOOLEAN /\ wire' \subseteq Messages
        /\ Len(records') \in Nat /\ Len(files') \in Nat
    BY <1>1, AppliedType
  <2>2. TypeOK
    BY DEF IInv
  <2>3. /\ pc' \in [Pushes -> PCs] /\ target' \in [Pushes -> Nat] /\ file' \in [Pushes -> Nat]
        /\ attempt' \in [Pushes -> Nat] /\ UNCHANGED <<ref, action>>
    BY <2>1, <2>2 DEF Answered, TypeOK, Goto, Move, PCs, Reading
  <2>4. QED
    BY <2>1, <2>2, <2>3 DEF TypeOK
<1>6. QED
  BY <1>3, <1>4, <1>5 DEF IInv

\* So do late writes and other editors.
LEMMA InstancePreserves ==
    ASSUME IInv, LateWrite \/ Edit \/ UNCHANGED vars
    PROVE  IInv'
<1>1. \A q \in Pushes : Same(q)
  BY DEF LateWrite, Edit, vars, Same
<1>2. TypeOK /\ UNCHANGED <<pc, ref, target, attempt, action, file>>
  BY DEF IInv, LateWrite, Edit, vars
<1>3. AttachedOnce'
  BY <1>1, EndedKept DEF Same
<1>4. CASE LateWrite
  <2>1. PICK m \in wire : Applied(m)
    BY <1>4 DEF LateWrite
  <2>2. TypeOK'
    BY <1>2, <2>1, AppliedType DEF TypeOK
  <2>3. QED
    BY <1>1, <1>3, <2>1, <2>2, AppliedKeeps, AppliedCreators DEF IInv
<1>5. CASE Edit
  <2>1. PICK i \in DOMAIN records :
           records' = [records EXCEPT ![i].content = Edited, ![i].by = Editor]
    BY <1>5 DEF Edit
  <2>2. UNCHANGED <<files, rewriting, wire>>
    BY <1>5 DEF Edit
  <2>3. records \in Seq(Record) /\ records[i] \in Record /\ DOMAIN records = 1..Len(records)
    BY <1>2, LenProperties DEF TypeOK
  <2> DEFINE e == [records[i] EXCEPT !.content = Edited, !.by = Editor]
  <2>4. e \in Record /\ e.creator = records[i].creator
    BY <2>3 DEF Record
  <2>5. records' = [records EXCEPT ![i] = e]
    BY <2>1
  <2> HIDE DEF e
  <2>6. /\ records' \in Seq(Record) /\ DOMAIN records' = DOMAIN records
        /\ \A j \in DOMAIN records : records'[j].creator = records[j].creator
    BY <2>3, <2>4, <2>5, ExceptSeq
  <2>7. TypeOK' /\ CreatesAtMostOne'
    BY <1>2, <2>2, <2>6 DEF TypeOK, CreatesAtMostOne, IInv
  <2>8. QED
    BY <1>3, <1>5, <2>7, EditKeeps DEF IInv
<1>6. CASE UNCHANGED vars
  <2>1. UNCHANGED table /\ wire' = wire
    BY <1>6 DEF vars, table
  <2>2. \A q \in Pushes : Mine(q)'
    BY <1>1, <2>1, QuietKeeps
  <2>3. TypeOK' /\ CreatesAtMostOne'
    BY <1>2, <2>1 DEF TypeOK, CreatesAtMostOne, IInv, table
  <2>4. QED
    BY <1>3, <2>2, <2>3 DEF IInv
<1>7. QED
  BY <1>4, <1>5, <1>6

\* Every step preserves the invariant.
LEMMA NextIInv == IInv /\ [Next]_vars => IInv'
<1> SUFFICES ASSUME IInv, [Next]_vars
             PROVE  IInv'
  OBVIOUS
<1>1. ASSUME NEW p \in Pushes, Start(p) \/ Step(p) PROVE IInv'
  BY <1>1, QuietPreserves, AnsweredPreserves DEF Step, Quiet
<1>2. CASE LateWrite \/ Edit \/ UNCHANGED vars
  BY <1>2, InstancePreserves
<1>3. QED
  BY <1>1, <1>2 DEF Next

-----------------------------------------------------------------------------
(* The theorems *)

\* Every reachable state satisfies the inductive invariant.
THEOREM Invariance == Spec => []IInv
<1>1. Init => IInv
  BY InitIInv
<1>2. IInv /\ [Next]_vars => IInv'
  BY NextIInv
<1>3. QED
  BY <1>1, <1>2, PTL DEF Spec

\* One push creates at most one record, however often it is refused, however
\* late its creation is processed and whatever the others do.
THEOREM OneCreation == Spec => []CreatesAtMostOne
<1>1. IInv => CreatesAtMostOne
  BY DEF IInv
<1>2. QED
  BY <1>1, Invariance, PTL

\* A push that succeeded and wrote last finds its payload stored, also when late
\* repetitions of its update arrive, and on an instance that rewrites.
THEOREM StoredAsSent == Spec => []SuccessIsStored
<1>1. IInv => SuccessIsStored
  BY DEF IInv, Mine, Seen, Past, SuccessIsStored
<1>2. QED
  BY <1>1, Invariance, PTL

\* Pushes that succeed with the same evidence on one record name one attachment.
THEOREM OneAttachment == Spec => []AttachedOnce
<1>1. IInv => AttachedOnce
  BY DEF IInv
<1>2. QED
  BY <1>1, Invariance, PTL

-----------------------------------------------------------------------------
(* One record for the pushes of one change *)

\* The identities of a push, of a change that shares none with another change.
Identities(p) == {CorrOf[p], FormerOf[p]}

Separate == \A p, q \in Pushes : Identities(p) \cap Identities(q) # {} => SameIdentity(p, q)

\* No push is given a reference to a record that carries the identity of another
\* change, nor does such a record come to carry one.
OwnReferences ==
    \A p, q \in Pushes :
        ref[p] \in DOMAIN records /\ records[ref[p]].corr \in Identities(q) => SameIdentity(p, q)

\* The target of a push is what it was referred to, or has one of its identities.
Named(p) ==
    /\ target[p] \in DOMAIN records \cup {NoRecord}
    /\ pc[p] \in {"idle", "lookup"} => target[p] = NoRecord
    /\ pc[p] \in {"post", "posting"} => ref[p] = NoRecord
    /\ target[p] # NoRecord /\ ref[p] # NoRecord => target[p] = ref[p]
    /\ target[p] # NoRecord /\ ref[p] = NoRecord => records[target[p]].corr \in Identities(p)

\* Past the second lookup.
Confirmed(p) == pc[p] \in {"find", "upload", "uploading", "recheck", "done"}

Agreed ==
    \A p, q \in Pushes :
        /\ Confirmed(p) /\ Confirmed(q)
        /\ ref[p] = NoRecord /\ ref[q] = NoRecord
        /\ SameIdentity(p, q)
        => target[p] = target[q]

NamedInv == (\A p \in Pushes : Named(p)) /\ Agreed

\* Places in the table are positive.
LEMMA PlacesArePositive ==
    ASSUME TypeOK
    PROVE  NoRecord \notin DOMAIN records /\ Len(records) + 1 \notin DOMAIN records
           /\ Len(records) + 1 # NoRecord
<1>1. DOMAIN records = 1..Len(records) /\ Len(records) \in Nat
  BY LenProperties DEF TypeOK
<1>2. QED
  BY <1>1 DEF NoRecord

\* A write leaves a record with the identity of each change that had found it.
LEMMA WriteKeepsNames ==
    ASSUME Separate, OwnReferences, IInv, NamedInv, NEW m \in wire, Applied(m),
           NEW q \in Pushes, target[q] # NoRecord, ref[q] = NoRecord
    PROVE  records'[target[q]].corr \in Identities(q)
<1>1. TypeOK /\ m.push \in Pushes /\ m.op \in Waiting
  BY DEF IInv, TypeOK, Messages
<1>2. target[q] \in DOMAIN records /\ records[target[q]].corr \in Identities(q)
  BY DEF NamedInv, Named
<1>3. m.op = "patching" => m.record = target[m.push] /\ m.record \in DOMAIN records
  BY <1>1 DEF IInv, Mine, Sent
<1>4. /\ m.op = "posting" => \A i \in DOMAIN records : records'[i] = records[i]
      /\ m.op = "patching" =>
            /\ records'[m.record] = Store(m.push, records[m.record].creator)
            /\ \A i \in DOMAIN records : i # m.record => records'[i] = records[i]
      /\ m.op = "uploading" => records' = records
  BY <1>1, <1>3, AppliedEffect
<1>5. CASE m.op = "patching" /\ m.record = target[q]
  <2>1. records'[target[q]].corr = CorrOf[m.push]
    BY <1>4, <1>5 DEF Store, Payload
  <2>2. SameIdentity(m.push, q)
    <3>1. m.record # NoRecord
      BY <1>3, <1>5, <1>1, PlacesArePositive
    <3>2. CASE ref[m.push] = NoRecord
      <4>1. records[m.record].corr \in Identities(m.push)
        BY <1>1, <1>3, <1>5, <3>1, <3>2 DEF NamedInv, Named
      <4>2. QED
        BY <1>1, <1>2, <1>5, <4>1 DEF Separate
    <3>3. CASE ref[m.push] # NoRecord
      <4>1. ref[m.push] = m.record
        BY <1>1, <1>3, <1>5, <3>1, <3>3 DEF NamedInv, Named
      <4>2. QED
        BY <1>1, <1>2, <1>5, <4>1 DEF OwnReferences
    <3>4. QED
      BY <3>2, <3>3
  <2>3. QED
    BY <2>1, <2>2 DEF SameIdentity, Identities
<1>6. CASE ~(m.op = "patching" /\ m.record = target[q])
  <2>1. records'[target[q]] = records[target[q]]
    BY <1>1, <1>2, <1>4, <1>6 DEF Waiting
  <2>2. QED
    BY <1>2, <2>1
<1>7. QED
  BY <1>5, <1>6

\* A push that is where it was, or whose table is.
LEMMA NamedKept ==
    ASSUME NamedInv, NEW q \in Pushes, target'[q] = target[q], ref'[q] = ref[q],
           DOMAIN records \subseteq DOMAIN records',
           target[q] # NoRecord /\ ref[q] = NoRecord => records'[target[q]].corr \in Identities(q),
           pc'[q] \in {"idle", "lookup"} => pc[q] \in {"idle", "lookup"},
           pc'[q] \in {"post", "posting"} => ref[q] = NoRecord
    PROVE  Named(q)'
BY DEF NamedInv, Named, Identities

\* Whoever is confirmed agrees, unless somebody is confirmed or moved.
LEMMA AgreedKept ==
    ASSUME NamedInv,
           \A q \in Pushes : Confirmed(q)' => Confirmed(q) /\ target'[q] = target[q] /\ ref'[q] = ref[q]
    PROVE  Agreed'
BY DEF NamedInv, Agreed, SameIdentity

\* A write that is processed while its push waits for it or does not.
LEMMA WriteNames ==
    ASSUME Separate, OwnReferences, IInv, NamedInv, NEW m \in wire, Applied(m)
    PROVE  /\ DOMAIN records \subseteq DOMAIN records'
           /\ \A q \in Pushes : target'[q] = target[q] /\ ref'[q] = ref[q]
                  /\ (pc'[q] \in {"idle", "lookup"} => pc[q] \in {"idle", "lookup"})
                  /\ (pc'[q] \in {"post", "posting"} => ref[q] = NoRecord)
                  => Named(q)'
<1>1. TypeOK /\ m.push \in Pushes
  BY DEF IInv, TypeOK, Messages
<1>2. m.op = "patching" => m.record \in DOMAIN records
  BY <1>1 DEF IInv, Mine, Sent
<1>3. DOMAIN records \subseteq DOMAIN records'
  BY <1>1, <1>2, AppliedEffect
<1>4. ASSUME NEW q \in Pushes, target'[q] = target[q], ref'[q] = ref[q],
             pc'[q] \in {"idle", "lookup"} => pc[q] \in {"idle", "lookup"},
             pc'[q] \in {"post", "posting"} => ref[q] = NoRecord
      PROVE  Named(q)'
  <2>1. target[q] # NoRecord /\ ref[q] = NoRecord => records'[target[q]].corr \in Identities(q)
    BY WriteKeepsNames
  <2>2. QED
    BY <1>3, <1>4, <2>1, NamedKept
<1>5. QED
  BY <1>3, <1>4

LEMMA InitNamed ==
    ASSUME Init
    PROVE  NamedInv
BY DEF Init, NamedInv, Named, Agreed, Confirmed

\* The answer to a creation gives the push a target of its identity.
LEMMA AnsweredNames ==
    ASSUME Separate, OwnReferences, IInv, NamedInv, NEW p \in Pushes, Answered(p)
    PROVE  NamedInv'
<1>1. TypeOK /\ pc[p] \in Waiting
  BY DEF IInv, Answered
<1>2. PICK m \in wire : m.push = p /\ Awaited(m) /\ Applied(m)
  BY DEF Answered
<1>3. m.op = pc[p]
  BY <1>2 DEF Awaited
<1>4. ref' = ref /\ \A q \in Pushes : q # p => pc'[q] = pc[q] /\ target'[q] = target[q]
  BY <1>1 DEF Answered, Goto, Move, TypeOK
<1>5. \A q \in Pushes : q # p => Named(q)'
  <2>1. \A q \in Pushes : q # p /\ pc[q] \in {"post", "posting"} => ref[q] = NoRecord
    BY DEF NamedInv, Named
  <2>2. QED
    BY <1>2, <1>4, <2>1, WriteNames
<1>6. pc'[p] \in {"verify", "recheck"} /\ (pc'[p] = "recheck" => pc[p] = "uploading")
  BY <1>1 DEF Answered, Goto, Move, TypeOK, Waiting
<1>7. pc[p] # "posting" => target'[p] = target[p]
  BY <1>1 DEF Answered, Waiting
<1>8. Named(p)'
  <2>1. CASE pc[p] = "posting"
    <3>1. /\ records'[Len(records) + 1] = Store(p, p) /\ Len(records') = Len(records) + 1
          /\ DOMAIN records' = DOMAIN records \cup {Len(records) + 1}
      BY <1>1, <1>2, <1>3, <2>1, AppliedEffect
    <3>2. target'[p] = Len(records) + 1
      BY <1>1, <2>1, <3>1 DEF Answered, TypeOK
    <3>3. Store(p, p).corr = CorrOf[p]
      BY DEF Store, Payload
    <3>4. ref[p] = NoRecord
      BY <2>1 DEF NamedInv, Named
    <3>5. QED
      BY <1>4, <1>6, <3>1, <3>2, <3>3, <3>4 DEF Named, Identities
  <2>2. CASE pc[p] # "posting"
    BY <1>2, <1>4, <1>6, <1>7, <2>2, WriteNames
  <2>3. QED
    BY <2>1, <2>2
<1>9. Agreed'
  <2>1. \A q \in Pushes : Confirmed(q)' => Confirmed(q) /\ target'[q] = target[q]
    BY <1>4, <1>6, <1>7 DEF Confirmed
  <2>2. QED
    BY <1>4, <2>1, AgreedKept
<1>10. QED
  BY <1>5, <1>8, <1>9 DEF NamedInv

\* The lookup, the second lookup, and the other steps of a push.
LEMMA QuietNames ==
    ASSUME IInv, NamedInv, NEW p \in Pushes, Quiet(p)
    PROVE  NamedInv'
<1>1. TypeOK /\ records' = records
  BY DEF IInv, Quiet, Start, LookupRefuses, LookupFinds, LookupFindsNone, Send, Refused, Retry, Broken,
         ReadFails, Verify, Confirm, FindFile, Recheck, Goto, Local, table
<1>2. \A q \in Pushes : q # p => pc'[q] = pc[q] /\ target'[q] = target[q]
  BY <1>1, OthersKept DEF Same
<1>3. \A q \in Pushes : q # p => ref'[q] = ref[q]
  BY <1>1 DEF Quiet, Start, LookupRefuses, LookupFinds, LookupFindsNone, Send, Refused, Retry, Broken,
         ReadFails, Verify, Confirm, FindFile, Recheck, Goto, Local, TypeOK
<1>4. \A q \in Pushes : q # p => Named(q)'
  BY <1>1, <1>2, <1>3 DEF NamedInv, Named, Identities
<1>5. CASE Start(p)
  <2>1. pc[p] = "idle" /\ pc'[p] = "lookup" /\ target'[p] = target[p]
    BY <1>1, <1>5 DEF Start, Move, TypeOK
  <2>2. Named(p)'
    BY <2>1 DEF NamedInv, Named
  <2>3. \A q \in Pushes : Confirmed(q)' => Confirmed(q) /\ target'[q] = target[q] /\ ref'[q] = ref[q]
    BY <1>2, <1>3, <2>1 DEF Confirmed
  <2>4. QED
    BY <1>4, <2>2, <2>3, AgreedKept DEF NamedInv
<1>6. CASE LookupFinds(p)
  <2>1. PICK i \in Matches(p) : target' = [target EXCEPT ![p] = i]
    BY <1>6 DEF LookupFinds
  <2>2. pc'[p] \in {"verify", "patch"} /\ ref' = ref /\ target'[p] = i
    BY <1>1, <1>6, <2>1 DEF LookupFinds, Local, Goto, Move, TypeOK
  <2>3. i \in DOMAIN records
        /\ (ref[p] # NoRecord => i = ref[p]) /\ (ref[p] = NoRecord => records[i].corr \in Identities(p))
    BY DEF Matches, Identities
  <2>4. Named(p)'
    BY <1>1, <2>2, <2>3 DEF Named, Identities
  <2>5. \A q \in Pushes : Confirmed(q)' => Confirmed(q) /\ target'[q] = target[q] /\ ref'[q] = ref[q]
    BY <1>2, <2>2 DEF Confirmed
  <2>6. QED
    BY <1>4, <2>4, <2>5, AgreedKept DEF NamedInv
<1>7. CASE Confirm(p)
  <2>1. UNCHANGED <<target, ref>> /\ pc[p] = "confirm"
        /\ pc'[p] \in {"failed", "find", "done"} /\ (pc'[p] # "failed" => Unique(p))
    BY <1>1, <1>7 DEF Confirm, Local, Goto, Move, TypeOK
  <2>2. Named(p)'
    BY <1>1, <2>1 DEF NamedInv, Named, Identities
  <2>3. ASSUME NEW q \in Pushes, Confirmed(p)', Confirmed(q)', q # p,
               ref[p] = NoRecord, ref[q] = NoRecord, SameIdentity(p, q)
        PROVE  target[p] = target[q]
    <3>1. Matches(p) = {target[p]}
      BY <2>1, <2>3 DEF Confirmed, Unique
    <3>2. Confirmed(q)
      BY <1>2, <2>3 DEF Confirmed
    <3>3. target[q] \in DOMAIN records
      BY <3>2 DEF Confirmed, IInv, Mine, Sent, Past
    <3>4. target[q] # NoRecord
      BY <1>1, <3>3, PlacesArePositive
    <3>5. records[target[q]].corr \in Identities(q)
      BY <2>3, <3>4 DEF NamedInv, Named
    <3>6. target[q] \in Matches(p)
      BY <2>3, <3>3, <3>5 DEF Matches, Identities, SameIdentity
    <3>7. QED
      BY <3>1, <3>6
  <2>4. \A q, r \in Pushes : q # p /\ r # p /\ Confirmed(q)' /\ Confirmed(r)'
            /\ ref[q] = NoRecord /\ ref[r] = NoRecord /\ SameIdentity(q, r) => target[q] = target[r]
    BY <1>2 DEF NamedInv, Agreed, Confirmed
  <2>5. Agreed'
    <3>1. SUFFICES ASSUME NEW q \in Pushes, NEW r \in Pushes, Confirmed(q)', Confirmed(r)',
                          ref[q] = NoRecord, ref[r] = NoRecord, SameIdentity(q, r)
                   PROVE  target[q] = target[r]
      BY <2>1 DEF Agreed, SameIdentity
    <3>2. SameIdentity(r, q)
      BY <3>1 DEF SameIdentity
    <3>3. QED
      BY <2>3, <2>4, <3>1, <3>2
  <2>6. QED
    BY <1>4, <2>2, <2>5 DEF NamedInv
<1>8. CASE LookupFindsNone(p)
  <2>1. UNCHANGED <<target, ref>> /\ ref[p] = NoRecord /\ pc[p] = "lookup" /\ pc'[p] = "post"
    BY <1>1, <1>8 DEF LookupFindsNone, Local, Goto, Move, TypeOK
  <2>2. Named(p)'
    BY <1>1, <2>1 DEF NamedInv, Named, Identities
  <2>3. \A q \in Pushes : Confirmed(q)' => Confirmed(q) /\ target'[q] = target[q] /\ ref'[q] = ref[q]
    BY <1>2, <2>1 DEF Confirmed
  <2>4. QED
    BY <1>4, <2>2, <2>3, AgreedKept DEF NamedInv
<1>9. CASE \/ LookupRefuses(p) \/ Send(p) \/ Refused(p) \/ Broken(p) \/ ReadFails(p)
           \/ Verify(p) \/ FindFile(p) \/ Recheck(p)
  <2>1. UNCHANGED <<target, ref>>
    BY <1>9 DEF LookupRefuses, Send, Refused, Retry, Broken, ReadFails, Verify, FindFile, Recheck, Local, Goto
  <2>2. /\ pc'[p] \notin {"idle", "lookup"}
        /\ pc'[p] \in {"post", "posting"} => pc[p] \in {"post", "posting"}
        /\ Confirmed(p)' => Confirmed(p)
    <3>1. CASE LookupRefuses(p)
      BY <1>1, <3>1 DEF LookupRefuses, Local, Goto, Move, TypeOK, Confirmed
    <3>2. CASE Send(p)
      BY <1>1, <3>2 DEF Send, Wait, Goto, Move, TypeOK, Confirmed
    <3>3. CASE Refused(p)
      BY <1>1, <3>3 DEF Refused, Retry, MayRetry, Waiting, Goto, Move, TypeOK, Confirmed
    <3>4. CASE Broken(p)
      BY <1>1, <3>4 DEF Broken, Goto, Move, TypeOK, Confirmed
    <3>5. CASE ReadFails(p)
      BY <1>1, <3>5 DEF ReadFails, Local, Goto, Move, TypeOK, Confirmed
    <3>6. CASE Verify(p)
      BY <1>1, <3>6 DEF Verify, Local, Goto, Move, TypeOK, Confirmed
    <3>7. CASE FindFile(p)
      BY <1>1, <3>7 DEF FindFile, Local, Goto, Move, TypeOK, Confirmed
    <3>8. CASE Recheck(p)
      BY <1>1, <3>8 DEF Recheck, Local, Goto, Move, TypeOK, Confirmed
    <3>9. QED
      BY <1>9, <3>1, <3>2, <3>3, <3>4, <3>5, <3>6, <3>7, <3>8
  <2>3. Named(p)'
    BY <1>1, <2>1, <2>2 DEF NamedInv, Named, Identities
  <2>4. \A q \in Pushes : Confirmed(q)' => Confirmed(q) /\ target'[q] = target[q] /\ ref'[q] = ref[q]
    BY <1>2, <2>1, <2>2 DEF Confirmed
  <2>5. QED
    BY <1>4, <2>3, <2>4, AgreedKept DEF NamedInv
<1>10. QED
  BY <1>5, <1>6, <1>7, <1>8, <1>9 DEF Quiet

\* Late writes and other editors take no identity away.
LEMMA InstanceNames ==
    ASSUME Separate, OwnReferences, IInv, NamedInv, LateWrite \/ Edit \/ UNCHANGED vars
    PROVE  NamedInv'
<1>1. TypeOK /\ UNCHANGED <<pc, ref, target, attempt, action, file>>
  BY DEF IInv, LateWrite, Edit, vars
<1>2. Agreed'
  BY <1>1, AgreedKept DEF Confirmed
<1>3. \A q \in Pushes : pc[q] \in {"post", "posting"} => ref[q] = NoRecord
  BY DEF NamedInv, Named
<1>4. CASE LateWrite
  <2>1. PICK m \in wire : Applied(m)
    BY <1>4 DEF LateWrite
  <2>2. QED
    BY <1>1, <1>2, <1>3, <2>1, WriteNames DEF NamedInv
<1>5. CASE Edit
  <2>1. PICK i \in DOMAIN records :
           records' = [records EXCEPT ![i].content = Edited, ![i].by = Editor]
    BY <1>5 DEF Edit
  <2>2. records \in Seq(Record) /\ records[i] \in Record
    BY <1>1, LenProperties DEF TypeOK
  <2>3. DOMAIN records' = DOMAIN records /\ \A j \in DOMAIN records : records'[j].corr = records[j].corr
    BY <2>1, <2>2 DEF Record
  <2>4. QED
    BY <1>1, <1>2, <2>3 DEF NamedInv, Named, Identities
<1>6. CASE UNCHANGED vars
  BY <1>2, <1>6 DEF vars, NamedInv, Named, Identities
<1>7. QED
  BY <1>4, <1>5, <1>6

\* Where changes do not share an identity, and no push is referred to a record of
\* another change, all pushes of one change that succeed name the same record,
\* whatever duplicates lost answers and overlapping pushes leave behind.
THEOREM OneRecord ==
    ASSUME Separate
    PROVE  Spec /\ []OwnReferences => []OneIdentity
<1>1. Init => NamedInv
  BY InitNamed
<1>2. IInv /\ OwnReferences /\ NamedInv /\ [Next]_vars => NamedInv'
  <2> SUFFICES ASSUME IInv, OwnReferences, NamedInv, [Next]_vars
               PROVE  NamedInv'
    OBVIOUS
  <2>1. ASSUME NEW p \in Pushes, Start(p) \/ Step(p)
        PROVE  NamedInv'
    BY <2>1, QuietNames, AnsweredNames DEF Step, Quiet
  <2>2. CASE LateWrite \/ Edit \/ UNCHANGED vars
    BY <2>2, InstanceNames
  <2>3. QED
    BY <2>1, <2>2 DEF Next
<1>3. NamedInv => OneIdentity
  BY DEF NamedInv, Agreed, Confirmed, OneIdentity
<1>4. QED
  BY <1>1, <1>2, <1>3, Invariance, PTL DEF Spec

==============================================================================
