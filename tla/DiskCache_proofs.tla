---------------------------- MODULE DiskCache_proofs ----------------------------
(***************************************************************************)
(* For any processes, calls, times to live, renamings, failures and        *)
(* crashes: no answer of the cache is older than its time to live, also    *)
(* where processes write into each other's files; a call in the locked     *)
(* part holds the lock of its process; and while one process alone writes, *)
(* the entry in place is whole.                                            *)
(***************************************************************************)
EXTENDS DiskCacheProps, TLAPS

Types ==
  /\ now \in Nat
  /\ until \in Seq(Nat)
  /\ Name <= MaxRenames
  /\ failedAt \in Nat \cup {None}
  /\ file \in [Call -> Content]
  /\ path \in Call \cup {None}
  /\ tmp \in Call \cup {None}
  /\ calls \in [Call -> CallInfo]

\* The value was still the name, or a failure of Slack, Ttl before t or later.
Good(value, t) ==
  /\ t <= now + Ttl
  /\ value \in Value
  /\ IF value = Fallback THEN failedAt \in Nat /\ failedAt + Ttl >= t
     ELSE value <= Name /\ (value < Name => until[value + 1] + Ttl >= t)

Writing == {"open", "flush", "replace", "clean"}

\* What a call computed is good for Ttl from the call on, and what it answers at
\* the call; a call that writes has a file open.
CallOK(call) ==
  /\ call.stamp <= now
  /\ call.pc \in Writing => Good(call.value, call.stamp + Ttl)
  /\ call.pc = "flush" => call.fd \in Call
  /\ call.pc = "done" => Good(call.value, call.stamp + 1)

\* An entry is good to its expiry, whichever file it got into.
FileOK(content) == content \notin {Empty, Torn} => Good(content.output, content.expiry)

IInv == Types /\ \A c \in Call : CallOK(calls[c]) /\ FileOK(file[c])

-------------------------------------------------------------------------------
\* Initially there are no calls and no entries.
LEMMA InitInv == Init => IInv
<1> SUFFICES ASSUME Init PROVE IInv
  OBVIOUS
<1>1. Types
  <2>1. calls \in [Call -> CallInfo]
    BY DEF Init, Resting, CallInfo, PC, Holding
  <2> QED
    BY <2>1, BoundsAssumption DEF Init, Types, Name, Content
<1>2. \A c \in Call : CallOK(calls[c])
  BY DEF Init, CallOK, Resting, Writing
<1>3. \A c \in Call : FileOK(file[c])
  BY DEF Init, FileOK
<1> QED
  BY <1>1, <1>2, <1>3 DEF IInv

\* A value stays good while time goes by, names change and Slack fails.
LEMMA StaysGood ==
  ASSUME Types, NEW value, NEW t \in Int, Good(value, t),
         now' \in Nat, now' >= now,
         until' = until \/ until' = Append(until, now),
         failedAt' = failedAt \/ failedAt' = now'
  PROVE  Good(value, t)'
<1>a. Ttl \in Nat /\ now \in Nat /\ t <= now' + Ttl /\ value \in Value
  <2>1. Ttl \in Nat /\ now \in Nat
    BY BoundsAssumption DEF Types
  <2>2. t <= now + Ttl /\ value \in Value
    BY DEF Good
  <2>3. \A i, j, k \in Nat : i >= j => (t <= j + k => t <= i + k)
    OBVIOUS
  <2> QED
    BY <2>1, <2>2, <2>3
<1>1. CASE value = Fallback
  <2>1. failedAt' \in Nat /\ failedAt' + Ttl >= t
    BY <1>1, <1>a DEF Good
  <2> QED
    BY <1>1, <1>a, <2>1 DEF Good
<1>2. CASE value # Fallback
  <2>1. value \in Nat /\ value <= Name
    BY <1>2, BoundsAssumption DEF Good, Value
  <2>2. CASE until' = until
    <3>1. Name' = Name
      BY <2>2 DEF Name
    <3> QED
      BY <1>2, <1>a, <2>1, <2>2, <3>1 DEF Good
  <2>3. CASE until' = Append(until, now)
    <3>1. Name' = Name + 1 /\ until'[Name + 1] = now
          /\ \A i \in 1..Name : until'[i] = until[i]
      BY <2>3 DEF Name, Types
    <3>2. value < Name => until'[value + 1] = until[value + 1]
      BY <2>1, <3>1 DEF Name, Types
    <3>3. Name \in Nat
      BY DEF Name, Types
    <3>4. value < Name' => until'[value + 1] + Ttl >= t
      BY <1>2, <1>a, <2>1, <3>1, <3>2, <3>3 DEF Good
    <3> QED
      <4>1. value <= Name'
        BY <2>1, <3>1, <3>3
      <4> QED
        BY <1>2, <1>a, <3>4, <4>1 DEF Good
  <2> QED
    BY <2>2, <2>3
<1> QED
  BY <1>1, <1>2

\* Every step keeps calls and files good.
LEMMA NextInv == IInv /\ [Next]_vars => IInv'
<1> SUFFICES ASSUME IInv, [Next]_vars PROVE IInv'
  OBVIOUS
<1>a. /\ Types
      /\ \A c \in Call : calls[c] \in CallInfo /\ file[c] \in Content
      /\ \A c \in Call : CallOK(calls[c]) /\ FileOK(file[c])
      /\ Ttl \in Nat \ {0}
  BY BoundsAssumption DEF IInv, Types
<1>b. /\ now' \in Nat /\ now' >= now
      /\ until' = until \/ until' = Append(until, now)
      /\ failedAt' = failedAt \/ failedAt' = now'
      /\ Name' <= MaxRenames
  <2>1. CASE UNCHANGED slack
    BY <2>1, <1>a DEF slack, Types, Name
  <2>2. CASE Tick
    BY <2>2, <1>a DEF Tick, Types, Name
  <2>3. CASE Rename
    <3>1. Name' = Name + 1 /\ Name \in Nat
      BY <2>3, <1>a DEF Rename, Types, Name
    <3> QED
      BY <2>3, <3>1, <1>a, BoundsAssumption DEF Rename, Types
  <2>4. CASE \E c \in Call : ComputeFails(c)
    BY <2>4, <1>a DEF ComputeFails, Types, Name
  <2> QED
    BY <2>1, <2>2, <2>3, <2>4
       DEF Next, Crash, Begin, Step, Lookup, Unlink, Compute, Open, Flush, FlushFails,
           Replace, Clean, vars, slack
<1>c. until' \in Seq(Nat) /\ failedAt' \in Nat \cup {None}
  <2>1. now \in Nat /\ until \in Seq(Nat) /\ failedAt \in Nat \cup {None}
    BY <1>a DEF Types
  <2>2. Append(until, now) \in Seq(Nat)
    BY <2>1
  <2> QED
    BY <1>b, <2>1, <2>2
<1>d. ASSUME NEW value, NEW t \in Int, Good(value, t) PROVE Good(value, t)'
  BY <1>a, <1>b, <1>d, StaysGood
<1>e. ASSUME NEW call \in CallInfo, CallOK(call) PROVE CallOK(call)'
  <2>1. call.stamp + Ttl \in Int /\ call.stamp + 1 \in Int /\ call.stamp <= now'
    BY <1>a, <1>b, <1>e DEF CallInfo, CallOK, Types
  <2>2. call.pc \in Writing => Good(call.value, call.stamp + Ttl)'
    BY <1>a, <1>d, <1>e, <2>1 DEF CallOK
  <2>3. call.pc = "done" => Good(call.value, call.stamp + 1)'
    BY <1>d, <1>e, <2>1 DEF CallOK
  <2> QED
    BY <1>e, <2>1, <2>2, <2>3 DEF CallOK
<1>f. ASSUME NEW content \in Content, FileOK(content) PROVE FileOK(content)'
  <2>1. CASE content \in {Empty, Torn}
    BY <2>1 DEF FileOK
  <2>2. CASE content \notin {Empty, Torn}
    <3>1. content.expiry \in Int /\ Good(content.output, content.expiry)
      BY <1>f, <2>2 DEF Content, Entry, FileOK
    <3> QED
      BY <1>d, <3>1 DEF FileOK
  <2> QED
    BY <2>1, <2>2
<1> DEFINE NewPath == path' \in Call \cup {None} /\ tmp' \in Call \cup {None}
\* A step of one call that writes to no file, and one that writes to one.
<1>g. ASSUME NewPath, UNCHANGED file, calls' \in [Call -> CallInfo],
             \A c \in Call : CallOK(calls[c])'
      PROVE  IInv'
  <2>1. \A c \in Call : FileOK(file[c])'
    <3> SUFFICES ASSUME NEW c \in Call PROVE FileOK(file[c])'
      OBVIOUS
    <3>1. PICK content \in Content : content = file[c] /\ FileOK(content)
      BY <1>a
    <3>2. FileOK(content)'
      BY <1>f, <3>1
    <3>3. file'[c] = content
      BY <1>g, <3>1
    <3> QED
      BY <3>2, <3>3 DEF FileOK
  <2> QED
    BY <1>a, <1>b, <1>c, <1>g, <2>1 DEF IInv, Types
<1>h. ASSUME NEW c \in Call, NEW job \in CallInfo, calls' = [calls EXCEPT ![c] = job],
             CallOK(job)'
      PROVE  calls' \in [Call -> CallInfo] /\ \A b \in Call : CallOK(calls[b])'
  <2>1. calls' \in [Call -> CallInfo]
    BY <1>a, <1>h DEF Types
  <2>2. ASSUME NEW b \in Call PROVE CallOK(calls[b])'
    <3>1. PICK call \in CallInfo : calls'[b] = call /\ CallOK(call)'
      <4>1. calls'[b] = IF b = c THEN job ELSE calls[b]
        BY <1>a, <1>h DEF Types
      <4>2. b = c => CallOK(job)'
        BY <1>h
      <4>3. PICK call \in CallInfo : call = calls[b] /\ CallOK(call)
        BY <1>a
      <4>4. CallOK(call)'
        BY <1>e, <4>3
      <4> QED
        BY <1>h, <4>1, <4>2, <4>3, <4>4
    <3> QED
      BY <3>1 DEF CallOK
  <2> QED
    BY <2>1, <2>2
<1>i. ASSUME NEW c \in Call, NEW job \in CallInfo, calls' = [calls EXCEPT ![c] = job],
             CallOK(job), NewPath, NEW f \in Call, NEW content \in Content,
             file' = [file EXCEPT ![f] = content], FileOK(content)
      PROVE  IInv'
  <2>2. ASSUME NEW b \in Call PROVE FileOK(file[b])'
    <3>1. PICK text \in Content : file'[b] = text /\ FileOK(text)'
      <4>1. file'[b] = IF b = f THEN content ELSE file[b]
        BY <1>a, <1>i DEF Types
      <4>2. PICK text \in Content : text = file[b] /\ FileOK(text)
        BY <1>a
      <4>3. FileOK(text)' /\ FileOK(content)'
        BY <1>f, <1>i, <4>2
      <4> QED
        BY <1>i, <4>1, <4>2, <4>3
    <3> QED
      BY <3>1 DEF FileOK
  <2>3. file' \in [Call -> Content]
    BY <1>a, <1>i DEF Types
  <2>4. calls' \in [Call -> CallInfo] /\ \A b \in Call : CallOK(calls[b])'
    BY <1>e, <1>h, <1>i
  <2> QED
    BY <1>a, <1>b, <1>c, <1>i, <2>2, <2>3, <2>4 DEF IInv, Types
<1>j. ASSUME NEW pc \in PC PROVE Resting(pc) \in CallInfo
  BY DEF Resting, CallInfo
<1>k. PC = {"unlink", "flush", "replace", "clean", "off", "lookup", "compute", "open",
            "done", "raised", "lost"}
      /\ Writing = {"open", "flush", "replace", "clean"}
  BY DEF PC, Holding, Writing
<1>n. ASSUME NEW c \in Call, NEW job \in CallInfo, calls' = [calls EXCEPT ![c] = job],
             CallOK(job)
      PROVE  calls' \in [Call -> CallInfo] /\ \A b \in Call : CallOK(calls[b])'
  BY <1>e, <1>h, <1>n
\* One that goes from one place of the code to another and computes nothing.
<1>l. ASSUME NEW c \in Call, NEW pc \in PC, Goto(c, pc), pc \notin {"flush", "done"},
             pc \in Writing => calls[c].pc \in Writing
      PROVE  calls' \in [Call -> CallInfo] /\ \A b \in Call : CallOK(calls[b])'
  <2> DEFINE job == [calls[c] EXCEPT !.pc = pc]
  <2>1. job \in CallInfo
    BY <1>a DEF CallInfo
  <2>2. CallOK(job)
    BY <1>a, <1>l DEF CallOK, CallInfo
  <2>3. calls' = [calls EXCEPT ![c] = job]
    BY <1>l DEF Goto
  <2> HIDE DEF job
  <2> QED
    BY <1>n, <2>1, <2>2, <2>3
<1>1. ASSUME NEW c \in Call, NEW p \in Process, Begin(c, p) PROVE IInv'
  <2> DEFINE job == [Resting("lookup") EXCEPT !.process = p, !.stamp = now]
  <2>1. job \in CallInfo
    BY <1>a, <1>k DEF Resting, CallInfo, Types
  <2>2. CallOK(job)
    BY <1>a, <1>k DEF CallOK, Resting, Types
  <2> QED
    BY <1>1, <1>a, <1>g, <1>n, <2>1, <2>2 DEF Begin, disk, Types
<1>m. ASSUME NEW c \in Call, NEW pc \in {"done", "raised"}, NEW value \in Value,
             Return(c, pc, value), pc = "done" => Good(value, calls[c].stamp + 1)
      PROVE  calls' \in [Call -> CallInfo] /\ \A b \in Call : CallOK(calls[b])'
  <2> DEFINE job == [Resting(pc) EXCEPT !.stamp = calls[c].stamp, !.value = value,
                                        !.error = calls[c].error]
  <2>1. job \in CallInfo
    BY <1>a, <1>k DEF Resting, CallInfo
  <2>2. CallOK(job)
    BY <1>a, <1>k, <1>m DEF CallOK, Resting
  <2>3. calls' = [calls EXCEPT ![c] = job]
    BY <1>m DEF Return
  <2> HIDE DEF job
  <2> QED
    BY <1>n, <2>1, <2>2, <2>3
<1>2. ASSUME NEW c \in Call, Lookup(c) PROVE IInv'
  <2>1. CASE Hit(c) /\ Return(c, "done", file[path].output)
    <3>1. path \in Call /\ file[path] \notin {Empty, Torn} /\ calls[c].stamp < file[path].expiry
      BY <1>a, <2>1 DEF Hit, Readable, Types
    <3>2. file[path] \in Entry /\ Good(file[path].output, file[path].expiry)
      BY <1>a, <3>1 DEF FileOK, Content
    <3>3. Good(file[path].output, calls[c].stamp + 1)
      <4> DEFINE v == file[path].output
                 e == file[path].expiry
                 s == calls[c].stamp
      <4>1. s \in Nat /\ e \in Nat /\ now \in Nat /\ s + 1 <= e
        BY <1>a, <3>1, <3>2 DEF Entry, CallInfo, Types
      <4>2. Good(v, e) /\ s <= now
        BY <1>a, <3>2 DEF CallOK
      <4>3. v # Fallback => v \in Nat /\ (v < Name => until[v + 1] \in Nat)
        BY <1>a, <4>2 DEF Good, Value, Name, Types
      <4>4. v = Fallback => failedAt \in Nat /\ failedAt + Ttl >= e
        BY <4>2 DEF Good
      <4>5. v # Fallback => v <= Name /\ (v < Name => until[v + 1] + Ttl >= e)
        BY <4>2 DEF Good
      <4>6. v \in Value
        BY <4>2 DEF Good
      <4> HIDE DEF v, e, s
      <4>7. Good(v, s + 1)
        BY <1>a, <4>1, <4>2, <4>3, <4>4, <4>5, <4>6 DEF Good
      <4> QED
        BY <4>7 DEF v, s
    <3>4. file[path].output \in Value
      BY <3>2 DEF Entry
    <3> QED
      BY <1>2, <1>a, <1>g, <1>m, <2>1, <3>3, <3>4 DEF Lookup, disk, Types
  <2>2. CASE Goto(c, "compute") \/ Goto(c, "unlink")
    BY <1>2, <1>a, <1>g, <1>k, <1>l, <2>2 DEF Lookup, disk, Types
  <2> QED
    BY <1>2, <2>1, <2>2 DEF Lookup
<1>3. ASSUME NEW c \in Call, Unlink(c) PROVE IInv'
  BY <1>3, <1>a, <1>g, <1>k, <1>l DEF Unlink, Types
<1>4. ASSUME NEW c \in Call, NEW value \in Value, NEW s \in Nat, s = calls[c].stamp,
             UNCHANGED disk,
             calls' = [calls EXCEPT ![c].pc = "open", ![c].value = value],
             Good(value, s + Ttl)'
      PROVE  IInv'
  <2>1. PICK job \in CallInfo : job = [calls[c] EXCEPT !.pc = "open", !.value = value]
    BY <1>a, <1>k DEF CallInfo
  <2>2. calls' = [calls EXCEPT ![c] = job]
    BY <1>4, <2>1
  <2>3. CallOK(job)'
    <3>1. job.pc = "open" /\ job.value = value /\ job.stamp = s
      BY <1>4, <1>a, <2>1 DEF CallInfo
    <3>2. s <= now'
      BY <1>4, <1>a, <1>b DEF CallOK, Types
    <3> QED
      BY <1>4, <3>1, <3>2 DEF CallOK
  <2> QED
    BY <1>4, <1>a, <1>g, <1>h, <2>2, <2>3 DEF disk, Types
<1>5. ASSUME NEW c \in Call, Compute(c) PROVE IInv'
  <2>1. PICK s \in Nat : s = calls[c].stamp /\ s <= now
    BY <1>a DEF CallInfo, CallOK
  <2>2. PICK name \in Value : name = Name /\ name \in Nat
    BY <1>a, BoundsAssumption DEF Name, Types, Value
  <2>3. Name' = name /\ now' = now
    BY <1>5, <2>2 DEF Compute, slack, Name
  <2>4. Good(name, s + Ttl)'
    BY <1>a, <2>1, <2>2, <2>3 DEF Good, Types, Fallback
  <2> QED
    BY <1>4, <1>5, <2>1, <2>2, <2>4 DEF Compute
<1>6. ASSUME NEW c \in Call, ComputeFails(c) PROVE IInv'
  <2>1. PICK s \in Nat : s = calls[c].stamp /\ s <= now
    BY <1>a DEF CallInfo, CallOK
  <2>2. Fallback \in Value /\ failedAt' = now /\ now' = now
    BY <1>6 DEF ComputeFails, Value
  <2>3. Good(Fallback, s + Ttl)'
    BY <1>a, <2>1, <2>2 DEF Good, Types
  <2> QED
    BY <1>4, <1>6, <2>1, <2>2, <2>3 DEF ComputeFails
<1>7. ASSUME NEW c \in Call, Open(c) PROVE IInv'
  <2> DEFINE job == [calls[c] EXCEPT !.pc = "flush", !.fd = tmp']
  <2>1. tmp' \in Call /\ path' = path
    BY <1>7, <1>a DEF Open, OpenTmp, Types
  <2>2. job \in CallInfo /\ calls' = [calls EXCEPT ![c] = job]
    BY <1>7, <1>a, <1>k, <2>1 DEF Open, OpenTmp, CallInfo
  <2>3. CallOK(job)
    BY <1>7, <1>a, <1>k, <2>1 DEF Open, CallOK, CallInfo
  <2>4. file' = [file EXCEPT ![tmp'] = Empty] /\ Empty \in Content /\ FileOK(Empty)
    BY <1>7 DEF Open, OpenTmp, Content, FileOK
  <2> QED
    BY <1>a, <1>i, <2>1, <2>2, <2>3, <2>4 DEF Types
<1>8. ASSUME NEW c \in Call, calls[c].pc \in {"open", "flush"}
      PROVE  EntryOf(c) \in Content /\ FileOK(EntryOf(c))
  <2>1. Good(calls[c].value, calls[c].stamp + Ttl)
    BY <1>8, <1>a, <1>k DEF CallOK
  <2>2. EntryOf(c) \in Entry
    BY <1>a, <2>1 DEF EntryOf, Entry, Good, CallInfo
  <2> QED
    BY <2>1, <2>2 DEF FileOK, Content, EntryOf
<1>9. ASSUME NEW c \in Call, Flush(c) PROVE IInv'
  <2> DEFINE f == calls[c].fd
             job == [calls[c] EXCEPT !.pc = "replace"]
  <2>1. PICK content \in {EntryOf(c), Torn} : file' = [file EXCEPT ![f] = content]
    BY <1>9 DEF Flush
  <2>2. content \in Content /\ FileOK(content)
    BY <1>8, <1>9, <2>1 DEF Flush, Content, FileOK
  <2>3. f \in Call
    BY <1>9, <1>a DEF Flush, CallOK
  <2>4. job \in CallInfo /\ CallOK(job) /\ calls' = [calls EXCEPT ![c] = job]
    BY <1>9, <1>a, <1>k DEF Flush, Goto, CallOK, CallInfo
  <2> HIDE DEF f, job
  <2> QED
    BY <1>9, <1>a, <1>i, <2>1, <2>2, <2>3, <2>4 DEF Flush, Types
<1>10. ASSUME NEW c \in Call, FlushFails(c) PROVE IInv'
  <2> DEFINE f == calls[c].fd
             job == [calls[c] EXCEPT !.pc = "clean", !.error = "disk"]
  <2>1. f \in Call /\ file' = [file EXCEPT ![f] = Torn]
    BY <1>10, <1>a DEF FlushFails, CallOK
  <2>2. job \in CallInfo /\ CallOK(job) /\ calls' = [calls EXCEPT ![c] = job]
    <3>1. calls[c] \in CallInfo /\ CallOK(calls[c]) /\ calls[c].pc = "flush"
      BY <1>10, <1>a DEF FlushFails
    <3>2. job \in CallInfo /\ job.pc = "clean" /\ job.stamp = calls[c].stamp
          /\ job.value = calls[c].value
      BY <3>1, <1>k DEF CallInfo
    <3>3. CallOK(job)
      BY ONLY <3>1, <3>2, <1>k DEF CallOK
    <3>4. calls' = [calls EXCEPT ![c] = job]
      BY <1>10, <1>a DEF FlushFails, Types
    <3> QED BY <3>2, <3>3, <3>4
  <2>3. Torn \in Content /\ FileOK(Torn)
    BY DEF Content, FileOK
  <2> HIDE DEF f, job
  <2> QED
    BY <1>10, <1>a, <1>i, <2>1, <2>2, <2>3 DEF FlushFails, Types
<1>11. ASSUME NEW c \in Call, Replace(c) PROVE IInv'
  <2>1. CASE Goto(c, "clean")
    BY <1>11, <1>a, <1>g, <1>k, <1>l, <2>1 DEF Replace, Types
  <2>2. CASE /\ calls' = [calls EXCEPT ![c].pc = "clean", ![c].error = "gone"]
             /\ UNCHANGED <<path, tmp>>
    <3> DEFINE job == [calls[c] EXCEPT !.pc = "clean", !.error = "gone"]
    <3>1. job \in CallInfo /\ CallOK(job) /\ calls' = [calls EXCEPT ![c] = job]
      BY <1>11, <1>a, <1>k, <2>2 DEF Replace, CallOK, CallInfo
    <3> HIDE DEF job
    <3> QED
      BY <1>11, <1>a, <1>g, <1>n, <2>2, <3>1 DEF Replace, Types
  <2> QED
    BY <1>11, <2>1, <2>2 DEF Replace
<1>12. ASSUME NEW c \in Call, Clean(c) PROVE IInv'
  <2>1. Good(calls[c].value, calls[c].stamp + Ttl)
    BY <1>12, <1>a, <1>k DEF Clean, CallOK
  <2>2. Good(calls[c].value, calls[c].stamp + 1)
    <3> DEFINE v == calls[c].value
               s == calls[c].stamp
    <3>1. s \in Nat /\ now \in Nat /\ s <= now
      BY <1>a DEF CallInfo, CallOK, Types
    <3>2. v # Fallback => v \in Nat /\ (v < Name => until[v + 1] \in Nat)
      BY <1>a, <2>1 DEF Good, Value, Name, Types
    <3> HIDE DEF v, s
    <3> QED
      BY <1>a, <2>1, <3>1, <3>2 DEF Good, v, s
  <2>3. calls[c].value \in Value
    BY <2>1 DEF Good
  <2>4. PICK pc \in {"done", "raised"} : Return(c, pc, calls[c].value)
    BY <1>12 DEF Clean
  <2> QED
    BY <1>12, <1>a, <1>g, <1>m, <2>2, <2>3, <2>4 DEF Clean, Types
<1>13. ASSUME NEW p \in Process, Crash(p) PROVE IInv'
  <2>1. \A c \in Call : calls'[c] = Resting("lost") \/ calls'[c] = calls[c]
    BY <1>13 DEF Crash
  <2>2. Resting("lost") \in CallInfo /\ CallOK(Resting("lost"))
    BY <1>a, <1>j, <1>k DEF CallOK, Resting, Types
  <2>3. calls' \in [Call -> CallInfo]
    BY <1>13, <1>a, <2>1, <2>2 DEF Crash
  <2>4. \A c \in Call : CallOK(calls[c])'
    <3> SUFFICES ASSUME NEW c \in Call PROVE CallOK(calls[c])'
      OBVIOUS
    <3>1. PICK call \in CallInfo : call = calls'[c] /\ CallOK(call)
      BY <1>a, <2>1, <2>2
    <3>2. CallOK(call)'
      BY <1>e, <3>1
    <3> QED
      BY <3>1, <3>2 DEF CallOK
  <2> QED
    BY <1>13, <1>a, <1>g, <2>3, <2>4 DEF Crash, disk, Types
<1>14. ASSUME UNCHANGED <<disk, calls>> PROVE IInv'
  <2>1. ASSUME NEW c \in Call PROVE CallOK(calls[c])'
    <3>1. PICK call \in CallInfo : call = calls[c] /\ CallOK(call)
      BY <1>a
    <3>2. CallOK(call)'
      BY <1>e, <3>1
    <3> QED
      BY <1>14, <3>1, <3>2 DEF CallOK
  <2> QED
    BY <1>14, <1>a, <1>g, <2>1 DEF disk, Types
<1> QED
  BY <1>1, <1>2, <1>3, <1>5, <1>6, <1>7, <1>9, <1>10, <1>11, <1>12, <1>13, <1>14
     DEF Next, Step, Tick, Rename, vars, disk

-------------------------------------------------------------------------------
\* No answer is older than the time to live, whatever files the processes emptied,
\* moved or removed under each other.
THEOREM AnswersAreFresh == Spec => []NeverStale
<1>1. Spec => []IInv
  BY InitInv, NextInv, PTL DEF Spec
<1>2. IInv => NeverStale
  <2> SUFFICES ASSUME IInv, NEW c \in Call, calls[c].pc = "done"
               PROVE  IF calls[c].value = Fallback THEN failedAt + Ttl > calls[c].stamp
                      ELSE calls[c].value < Name =>
                             until[calls[c].value + 1] + Ttl > calls[c].stamp
    BY DEF NeverStale
  <2> DEFINE v == calls[c].value
             s == calls[c].stamp
  <2>1. Good(v, s + 1) /\ s \in Nat /\ Ttl \in Nat
    BY BoundsAssumption DEF IInv, CallOK, Types, CallInfo
  <2>2. v # Fallback => v \in Nat /\ (v < Name => until[v + 1] \in Nat)
    BY <2>1 DEF IInv, Good, Value, Name, Types
  <2> QED
    BY <2>1, <2>2 DEF Good
<1> QED
  BY <1>1, <1>2, PTL

-------------------------------------------------------------------------------
(* The locks, and the files while one process alone has written. *)

Working == {"lookup", "compute", "open"} \cup Holding

Bounded ==
  /\ now \in 0..MaxNow
  /\ until \in Seq(0..MaxNow)
  /\ failedAt \in 0..MaxNow \cup {None}
  /\ failures \in 0..MaxFailures
  /\ crashes \in 0..MaxCrashes
  /\ writers \subseteq Process

\* A call at work is in a process, whose lock it holds in the locked part.
LockOK ==
  /\ lock \in [Process -> Call \cup {None}]
  /\ \A c \in Call : calls[c].pc \in Working => Home(c) \in Process
  /\ \A p \in Process, c \in Call : lock[p] = c <=> Home(c) = p /\ calls[c].pc \in Holding

\* The process of a call that has opened the file is a writer; a file is in use
\* only once the call that creates it has opened it.
Opened ==
  /\ \A c \in Call : calls[c].pc \in {"flush", "replace", "clean"} => Home(c) \in writers
  /\ \A c \in Call : path = c \/ tmp = c =>
       calls[c].pc \in {"flush", "replace", "clean", "done", "raised", "lost"}

\* While one process alone writes, the file of the write in progress is the
\* temporary one and not the entry, and is whole when it gets in its place.
Sole == \A p, q \in writers : p = q
WholeOK ==
  /\ path # None => file[path] \notin {Empty, Torn} /\ path # tmp
  /\ \A c \in Call :
       /\ calls[c].error # "gone"
       /\ calls[c].pc \in {"flush", "replace"} => calls[c].fd \in Call /\ tmp = calls[c].fd
       /\ calls[c].pc = "flush" => file[calls[c].fd] = Empty
       /\ calls[c].pc = "replace" => file[calls[c].fd] \notin {Empty, Torn}

DiskInv == Bounded /\ LockOK /\ Opened /\ (Sole => WholeOK)

LEMMA DiskInit == Init => DiskInv
<1> SUFFICES ASSUME Init PROVE DiskInv
  OBVIOUS
<1>1. Bounded
  BY BoundsAssumption DEF Init, Bounded
<1>2. LockOK
  BY NoneAssumption DEF Init, LockOK, Resting, Working, Holding, Home
<1>3. Opened /\ WholeOK
  BY NoneAssumption DEF Init, Opened, WholeOK, Resting
<1> QED BY <1>1, <1>2, <1>3 DEF DiskInv

\* A step of a call that neither takes nor gives back a lock, one that takes it,
\* and one that gives it back.
LEMMA LocksKept ==
  ASSUME Types, LockOK, NEW c \in Call, NEW job, calls' = [calls EXCEPT ![c] = job],
         lock' = lock, job.pc \in Working => job.process \in Process,
         job.pc \in Holding <=> calls[c].pc \in Holding,
         job.pc \in Holding => job.process = Home(c)
  PROVE  LockOK'
<1>1. \A d \in Call : calls'[d] = IF d = c THEN job ELSE calls[d]
  BY DEF Types
<1>2. \A d \in Call : calls'[d].pc \in Working => calls'[d].process \in Process
  BY <1>1 DEF LockOK, Home
<1>3. ASSUME NEW p \in Process, NEW d \in Call
      PROVE  lock[p] = d <=> calls'[d].process = p /\ calls'[d].pc \in Holding
  <2>1. lock[p] = d <=> calls[d].process = p /\ calls[d].pc \in Holding
    BY DEF LockOK, Home
  <2> QED BY <1>1, <2>1 DEF Home
<1> QED BY <1>2, <1>3 DEF LockOK, Home

LEMMA LockTaken ==
  ASSUME Types, LockOK, NEW c \in Call, NEW job, calls' = [calls EXCEPT ![c] = job],
         Free(c), Acquire(c), calls[c].pc \in Working,
         job.pc \in Holding, job.process = Home(c)
  PROVE  LockOK'
<1>1. \A d \in Call : calls'[d] = IF d = c THEN job ELSE calls[d]
  BY DEF Types
<1>2. Home(c) \in Process /\ lock[Home(c)] = None /\ None \notin Call
  BY NoneAssumption DEF LockOK, Free
<1>3. \A p \in Process : lock'[p] = IF p = Home(c) THEN c ELSE lock[p]
  BY DEF Acquire, LockOK
<1>4. lock' \in [Process -> Call \cup {None}]
  BY DEF Acquire, LockOK
<1>5. \A d \in Call : calls'[d].pc \in Working => calls'[d].process \in Process
  BY <1>1, <1>2 DEF LockOK, Home
<1>6. ASSUME NEW p \in Process, NEW d \in Call
      PROVE  lock'[p] = d <=> calls'[d].process = p /\ calls'[d].pc \in Holding
  <2>1. lock[p] = d <=> calls[d].process = p /\ calls[d].pc \in Holding
    BY DEF LockOK, Home
  <2>2. CASE d = c
    <3>1. lock[p] # d
      BY <2>2, <1>2, <2>1 DEF Home
    <3> QED BY <2>2, <3>1, <1>1, <1>3 DEF Home
  <2>3. CASE d # c
    BY <2>1, <2>3, <1>1, <1>2, <1>3
  <2> QED BY <2>2, <2>3
<1> QED BY <1>4, <1>5, <1>6 DEF LockOK, Home

LEMMA LockGiven ==
  ASSUME Types, LockOK, NEW c \in Call, NEW job, calls' = [calls EXCEPT ![c] = job],
         Unlock(c), calls[c].pc \in Holding, job.pc \notin Holding,
         job.pc \in Working => job.process = Home(c)
  PROVE  LockOK'
<1>1. \A d \in Call : calls'[d] = IF d = c THEN job ELSE calls[d]
  BY DEF Types
<1>2. Home(c) \in Process /\ None \notin Call /\ lock[Home(c)] = c
  BY NoneAssumption DEF LockOK, Working
<1>3. \A p \in Process : lock'[p] = IF p = Home(c) THEN None ELSE lock[p]
  BY DEF Unlock, LockOK
<1>4. lock' \in [Process -> Call \cup {None}]
  BY DEF Unlock, LockOK
<1>5. \A d \in Call : calls'[d].pc \in Working => calls'[d].process \in Process
  BY <1>1, <1>2 DEF LockOK, Home
<1>6. ASSUME NEW p \in Process, NEW d \in Call
      PROVE  lock'[p] = d <=> calls'[d].process = p /\ calls'[d].pc \in Holding
  <2>1. lock[p] = d <=> calls[d].process = p /\ calls[d].pc \in Holding
    BY DEF LockOK, Home
  <2>2. CASE d = c
    <3>1. lock'[p] # d
      BY <2>1, <2>2, <1>2, <1>3 DEF Home
    <3> QED BY <2>2, <3>1, <1>1
  <2>3. CASE d # c
    BY <2>1, <2>3, <1>1, <1>2, <1>3
  <2> QED BY <2>2, <2>3
<1> QED BY <1>4, <1>5, <1>6 DEF LockOK, Home

\* With one writing process its lock lets one call at a time have the file open.
LEMMA Alone ==
  ASSUME LockOK, Opened, Sole, NEW c \in Call, NEW d \in Call,
         calls[c].pc \in {"flush", "replace", "clean"},
         calls[d].pc \in {"flush", "replace", "clean"}
  PROVE  c = d
<1>1. Home(c) \in writers /\ Home(d) \in writers
  BY DEF Opened
<1>2. Home(c) = Home(d)
  BY <1>1 DEF Sole
<1>3. Home(c) \in Process
  BY DEF LockOK, Working, Holding
<1>4. lock[Home(c)] = c /\ lock[Home(c)] = d
  BY <1>2, <1>3 DEF LockOK, Holding
<1> QED BY <1>4

Past == {"flush", "replace", "clean", "done", "raised", "lost"}

\* A step of a call that is not writing, and may only take the entry away.
LEMMA AsideKeeps ==
  ASSUME Types, Opened, Sole => WholeOK, NEW c \in Call, NEW job,
         calls' = [calls EXCEPT ![c] = job], UNCHANGED <<file, tmp, writers>>,
         path' = path \/ path' = None,
         job.pc \notin {"flush", "replace", "clean"}, job.error = calls[c].error,
         calls[c].pc \in Past => job.pc \in Past
  PROVE  Opened' /\ (Sole' => WholeOK')
<1>1. \A d \in Call : calls'[d] = IF d = c THEN job ELSE calls[d]
  BY DEF Types
<1>2. None \notin Call
  BY NoneAssumption
<1>3. Opened'
  BY <1>1, <1>2 DEF Opened, Past, Home
<1>4. ASSUME Sole' PROVE WholeOK'
  <2>1. WholeOK
    BY <1>4 DEF Sole
  <2>2. path' # None => file'[path'] \notin {Empty, Torn} /\ path' # tmp'
    BY <2>1 DEF WholeOK
  <2>3. ASSUME NEW d \in Call
        PROVE  /\ calls'[d].error # "gone"
               /\ calls'[d].pc \in {"flush", "replace"} =>
                    calls'[d].fd \in Call /\ tmp' = calls'[d].fd
               /\ calls'[d].pc = "flush" => file'[calls'[d].fd] = Empty
               /\ calls'[d].pc = "replace" => file'[calls'[d].fd] \notin {Empty, Torn}
    <3>1. CASE d = c
      BY <1>1, <2>1, <3>1 DEF WholeOK
    <3>2. CASE d # c
      BY <1>1, <2>1, <3>2 DEF WholeOK
    <3> QED BY <3>1, <3>2
  <2> QED BY <2>2, <2>3 DEF WholeOK
<1> QED BY <1>3, <1>4

\* The steps that are no call's own, and the bounds of all.
LEMMA BoundedNext ==
  ASSUME Types, Bounded, LockOK, [Next]_vars
  PROVE  Bounded'
<1>1. ASSUME NEW c \in Call, Step(c) PROVE Bounded'
  <2>1. /\ now' = now /\ until' = until
        /\ failedAt' = failedAt \/ failedAt' = now
        /\ crashes' = crashes
    BY <1>1 DEF Step, Lookup, Unlink, Compute, ComputeFails, Open, Flush, FlushFails, Replace,
                Clean, slack, bounds
  <2>2. failures' \in 0..MaxFailures
    <3>1. failures' = failures \/ (failures < MaxFailures /\ failures' = failures + 1)
      BY <1>1 DEF Step, Lookup, Unlink, Compute, ComputeFails, Open, Flush, FlushFails, Replace,
                  Clean, bounds
    <3> QED BY <3>1, BoundsAssumption DEF Bounded
  <2>3. writers' \subseteq Process
    <3>1. CASE Open(c)
      <4>1. Home(c) \in Process
        BY <3>1 DEF Open, LockOK, Working
      <4> QED BY <3>1, <4>1 DEF Open, OpenTmp, Bounded
    <3>2. CASE ~Open(c)
      <4>1. writers' = writers
        BY <1>1, <3>2 DEF Step, Lookup, Unlink, Compute, ComputeFails, Flush, FlushFails, Replace,
                          Clean
      <4> QED BY <4>1 DEF Bounded
    <3> QED BY <3>1, <3>2
  <2> QED BY <2>1, <2>2, <2>3 DEF Bounded
<1>2. CASE Tick
  BY <1>2, BoundsAssumption DEF Tick, Bounded, bounds
<1>3. CASE Rename
  BY <1>3, BoundsAssumption DEF Rename, Bounded, bounds
<1>4. ASSUME NEW p \in Process, Crash(p) PROVE Bounded'
  BY <1>4, BoundsAssumption DEF Crash, Bounded, slack
<1>5. ASSUME NEW c \in Call, NEW p \in Process, Begin(c, p) PROVE Bounded'
  BY <1>5 DEF Begin, Bounded, slack, bounds
<1>6. CASE UNCHANGED vars
  BY <1>6 DEF vars, Bounded
<1> QED BY <1>1, <1>2, <1>3, <1>4, <1>5, <1>6 DEF Next

\* The steps of a call on its way to the file, and its answer from the cache.
LEMMA BeginKeeps ==
  ASSUME IInv, DiskInv, NEW c \in Call, NEW p \in Process, Begin(c, p)
  PROVE  LockOK' /\ Opened' /\ (Sole' => WholeOK')
<1> DEFINE job == [Resting("lookup") EXCEPT !.process = p, !.stamp = now]
<1>1. /\ job.pc = "lookup" /\ job.process = p /\ job.error = "none"
      /\ calls' = [calls EXCEPT ![c] = job] /\ calls[c].pc = "off"
  BY DEF Begin, Resting
<1> HIDE DEF job
<1>2. Types /\ LockOK /\ Opened /\ (Sole => WholeOK)
  BY DEF IInv, DiskInv
<1>3. LockOK'
  BY <1>1, <1>2, LocksKept DEF Begin, Holding
<1>4. UNCHANGED <<file, path, tmp, writers>>
  BY DEF Begin, disk
<1>5. Opened'
  BY <1>1, <1>2, <1>4, NoneAssumption DEF Opened, Types, Home
<1>6. ASSUME Sole' PROVE WholeOK'
  <2>1. WholeOK
    BY <1>2, <1>4, <1>6 DEF Sole
  <2>2. \A d \in Call : calls'[d] = IF d = c THEN job ELSE calls[d]
    BY <1>1, <1>2 DEF Types
  <2> QED BY <1>1, <1>4, <2>1, <2>2 DEF WholeOK
<1> QED BY <1>3, <1>5, <1>6

LEMMA EarlyKeeps ==
  ASSUME IInv, DiskInv, NEW c \in Call,
         Lookup(c) \/ Unlink(c) \/ Compute(c) \/ ComputeFails(c)
  PROVE  LockOK' /\ Opened' /\ (Sole' => WholeOK')
<1>1. Types /\ LockOK /\ Opened /\ (Sole => WholeOK) /\ calls[c] \in CallInfo
  BY DEF IInv, DiskInv, Types
<1>2. Home(c) = calls[c].process
  BY DEF Home
<1>3. CASE Lookup(c)
  <2>1. UNCHANGED <<file, path, tmp, writers>> /\ calls[c].pc = "lookup"
    BY <1>3 DEF Lookup, disk
  <2>2. CASE Hit(c) /\ Return(c, "done", file[path].output) /\ lock' = lock
    <3> DEFINE job == [Resting("done") EXCEPT !.stamp = calls[c].stamp,
                         !.value = file[path].output, !.error = calls[c].error]
    <3>1. /\ job.pc = "done" /\ job.error = calls[c].error
          /\ calls' = [calls EXCEPT ![c] = job]
      BY <2>2 DEF Return, Resting
    <3> HIDE DEF job
    <3>2. LockOK'
      BY <1>1, <2>1, <2>2, <3>1, LocksKept DEF Holding, Working
    <3>3. Opened' /\ (Sole' => WholeOK')
      BY <1>1, <2>1, <3>1, AsideKeeps DEF Past
    <3> QED BY <3>2, <3>3
  <2>3. CASE Goto(c, "compute") /\ lock' = lock
    <3> DEFINE job == [calls[c] EXCEPT !.pc = "compute"]
    <3>1. /\ job.pc = "compute" /\ job.error = calls[c].error /\ job.process = Home(c)
          /\ calls' = [calls EXCEPT ![c] = job]
      BY <2>3, <1>1, <1>2 DEF Goto, CallInfo
    <3> HIDE DEF job
    <3>2. LockOK'
      <4>1. Home(c) \in Process
        BY <1>1, <2>1 DEF LockOK, Working
      <4> QED BY <1>1, <2>1, <2>3, <3>1, <4>1, LocksKept DEF Holding
    <3>3. Opened' /\ (Sole' => WholeOK')
      BY <1>1, <2>1, <3>1, AsideKeeps DEF Past
    <3> QED BY <3>2, <3>3
  <2>4. CASE Acquire(c) /\ Goto(c, "unlink") /\ Free(c)
    <3> DEFINE job == [calls[c] EXCEPT !.pc = "unlink"]
    <3>1. /\ job.pc = "unlink" /\ job.error = calls[c].error /\ job.process = Home(c)
          /\ calls' = [calls EXCEPT ![c] = job]
      BY <2>4, <1>1, <1>2 DEF Goto, CallInfo
    <3> HIDE DEF job
    <3>2. LockOK'
      BY <1>1, <2>1, <2>4, <3>1, LockTaken DEF Holding, Working
    <3>3. Opened' /\ (Sole' => WholeOK')
      BY <1>1, <2>1, <3>1, AsideKeeps DEF Past
    <3> QED BY <3>2, <3>3
  <2> QED BY <1>3, <2>2, <2>3, <2>4 DEF Lookup
<1>4. CASE Unlink(c)
  <2> DEFINE job == [calls[c] EXCEPT !.pc = "compute"]
  <2>1. /\ job.pc = "compute" /\ job.error = calls[c].error /\ job.process = Home(c)
        /\ calls' = [calls EXCEPT ![c] = job] /\ calls[c].pc = "unlink"
    BY <1>4, <1>1, <1>2 DEF Unlink, Goto, CallInfo
  <2> HIDE DEF job
  <2>2. LockOK'
    BY <1>1, <1>4, <2>1, LockGiven DEF Unlink, Holding
  <2>3. Opened' /\ (Sole' => WholeOK')
    BY <1>1, <1>4, <2>1, AsideKeeps DEF Unlink, Past
  <2> QED BY <2>2, <2>3
<1>5. CASE Compute(c) \/ ComputeFails(c)
  <2>1. PICK v : calls' = [calls EXCEPT ![c].pc = "open", ![c].value = v]
    BY <1>5 DEF Compute, ComputeFails
  <2>2. UNCHANGED <<file, path, tmp, lock, writers>> /\ calls[c].pc = "compute"
    BY <1>5 DEF Compute, ComputeFails, disk
  <2> DEFINE job == [calls[c] EXCEPT !.pc = "open", !.value = v]
  <2>3. /\ job.pc = "open" /\ job.error = calls[c].error /\ job.process = Home(c)
        /\ calls' = [calls EXCEPT ![c] = job]
    BY <2>1, <1>1, <1>2 DEF CallInfo
  <2> HIDE DEF job
  <2>4. LockOK'
    <3>1. Home(c) \in Process
      BY <1>1, <2>2 DEF LockOK, Working
    <3> QED BY <1>1, <2>2, <2>3, <3>1, LocksKept DEF Holding
  <2>5. Opened' /\ (Sole' => WholeOK')
    BY <1>1, <2>2, <2>3, AsideKeeps DEF Past
  <2> QED BY <2>4, <2>5
<1> QED BY <1>3, <1>4, <1>5

\* The call that opens the file is then the only one that has it open, and the
\* file it empties is not the entry.
LEMMA OpenKeeps ==
  ASSUME IInv, DiskInv, NEW c \in Call, Open(c)
  PROVE  LockOK' /\ Opened' /\ (Sole' => WholeOK')
<1>1. /\ Types /\ LockOK /\ Opened /\ (Sole => WholeOK) /\ calls[c] \in CallInfo
      /\ Home(c) = calls[c].process /\ None \notin Call
  BY NoneAssumption DEF IInv, DiskInv, Types, Home
<1>2. PICK f \in Call : f = tmp' /\ f = IF tmp = None THEN c ELSE tmp
  BY <1>1 DEF Open, OpenTmp, Types
<1>3. /\ calls[c].pc = "open" /\ file' = [file EXCEPT ![f] = Empty] /\ path' = path
      /\ writers' = writers \cup {Home(c)} /\ tmp' = f /\ Free(c) /\ Acquire(c)
  BY <1>2 DEF Open, OpenTmp
<1> DEFINE job == [calls[c] EXCEPT !.pc = "flush", !.fd = f]
<1>4. /\ job.pc = "flush" /\ job.error = calls[c].error /\ job.process = Home(c) /\ job.fd = f
      /\ calls' = [calls EXCEPT ![c] = job]
  BY <1>1, <1>2 DEF Open, OpenTmp, CallInfo
<1> HIDE DEF job
<1>5. \A d \in Call : calls'[d] = IF d = c THEN job ELSE calls[d]
  BY <1>1, <1>4 DEF Types
<1>6. LockOK'
  BY <1>1, <1>3, <1>4, LockTaken DEF Holding, Working
<1>7. Opened'
  <2>1. ASSUME NEW d \in Call, calls'[d].pc \in {"flush", "replace", "clean"}
        PROVE  calls'[d].process \in writers'
    BY <2>1, <1>1, <1>3, <1>4, <1>5 DEF Opened, Home
  <2>2. ASSUME NEW d \in Call, path' = d \/ tmp' = d
        PROVE  calls'[d].pc \in {"flush", "replace", "clean", "done", "raised", "lost"}
    <3>1. CASE d = c
      BY <3>1, <1>4, <1>5
    <3>2. CASE d # c
      <4>1. path = d \/ tmp = d
        BY <2>2, <3>2, <1>2, <1>3
      <4> QED BY <3>2, <4>1, <1>1, <1>5 DEF Opened
    <3> QED BY <3>1, <3>2
  <2> QED BY <2>1, <2>2 DEF Opened, Home
<1>8. ASSUME Sole' PROVE WholeOK'
  <2>1. Sole /\ WholeOK
    BY <1>1, <1>3, <1>8 DEF Sole
  <2>2. path # None => path # f
    <3>1. path # c
      BY <1>1, <1>3 DEF Opened
    <3> QED BY <1>2, <2>1, <3>1 DEF WholeOK
  <2>3. path' # None => file'[path'] \notin {Empty, Torn} /\ path' # tmp'
    <3>1. path # None => path \in Call /\ file'[path] = file[path]
      BY <1>1, <1>3, <2>2 DEF Types
    <3> QED BY <1>3, <2>1, <2>2, <3>1 DEF WholeOK
  <2>4. ASSUME NEW d \in Call, d # c PROVE calls[d].pc \notin {"flush", "replace"}
    <3>1. SUFFICES ASSUME calls[d].pc \in {"flush", "replace"} PROVE FALSE
      OBVIOUS
    <3>2. Home(d) \in writers' /\ Home(c) \in writers'
      BY <1>1, <1>3, <3>1 DEF Opened
    <3>3. Home(d) = Home(c)
      BY <1>8, <3>2 DEF Sole
    <3>4. lock[Home(d)] = d
      BY <1>1, <3>1 DEF LockOK, Working, Holding
    <3> QED BY <1>1, <1>3, <3>3, <3>4 DEF Free
  <2>5. file'[f] = Empty
    BY <1>1, <1>3 DEF Types
  <2>6. ASSUME NEW d \in Call
        PROVE  /\ calls'[d].error # "gone"
               /\ calls'[d].pc \in {"flush", "replace"} =>
                    calls'[d].fd \in Call /\ tmp' = calls'[d].fd
               /\ calls'[d].pc = "flush" => file'[calls'[d].fd] = Empty
               /\ calls'[d].pc = "replace" => file'[calls'[d].fd] \notin {Empty, Torn}
    <3>1. CASE d = c
      BY <3>1, <1>2, <1>3, <1>4, <1>5, <2>1, <2>5 DEF WholeOK
    <3>2. CASE d # c
      BY <3>2, <1>5, <2>1, <2>4 DEF WholeOK
    <3> QED BY <3>1, <3>2
  <2> QED BY <2>3, <2>6 DEF WholeOK
<1> QED BY <1>6, <1>7, <1>8

\* What is written goes to the temporary file, whole over an empty one.
LEMMA FlushKeeps ==
  ASSUME IInv, DiskInv, NEW c \in Call, Flush(c) \/ FlushFails(c)
  PROVE  LockOK' /\ Opened' /\ (Sole' => WholeOK')
<1>1. /\ Types /\ LockOK /\ Opened /\ (Sole => WholeOK) /\ calls[c] \in CallInfo
      /\ Home(c) = calls[c].process
  BY DEF IInv, DiskInv, Types, Home
<1>2. PICK f \in Call : f = calls[c].fd
  BY DEF Flush, FlushFails, IInv, CallOK
<1>3. calls[c].pc = "flush" /\ UNCHANGED <<path, tmp, lock, writers>>
  BY DEF Flush, FlushFails
<1>4. PICK job \in CallInfo :
        /\ calls' = [calls EXCEPT ![c] = job]
        /\ job.process = Home(c) /\ job.fd = f
        /\ (job.error # "gone" \/ job.error = calls[c].error)
        /\ job.pc \in {"replace", "clean"}
        /\ job.pc = "replace" => Flush(c)
  <2>1. CASE Flush(c)
    <3> DEFINE job == [calls[c] EXCEPT !.pc = "replace"]
    <3>1. /\ calls' = [calls EXCEPT ![c] = job] /\ job \in CallInfo
          /\ job.process = Home(c) /\ job.fd = f /\ job.error = calls[c].error
          /\ job.pc = "replace"
      BY <1>1, <1>2, <2>1 DEF Flush, Goto, CallInfo, PC, Holding
    <3> HIDE DEF job
    <3> QED BY <2>1, <3>1
  <2>2. CASE FlushFails(c)
    <3> DEFINE job == [calls[c] EXCEPT !.pc = "clean", !.error = "disk"]
    <3>1. /\ calls' = [calls EXCEPT ![c] = job] /\ job \in CallInfo
          /\ job.process = Home(c) /\ job.fd = f /\ job.error = "disk"
          /\ job.pc = "clean"
      BY <1>1, <1>2, <2>2 DEF FlushFails, CallInfo, PC, Holding
    <3> HIDE DEF job
    <3> QED BY <3>1
  <2> QED BY <2>1, <2>2
<1>5. \A d \in Call : calls'[d] = IF d = c THEN job ELSE calls[d]
  BY <1>1, <1>4 DEF Types
<1>6. PICK content \in Content :
        /\ file' = [file EXCEPT ![f] = content]
        /\ Flush(c) => content = EntryOf(c) \/ (content = Torn /\ file[f] # Empty)
  <2>1. CASE Flush(c)
    <3>1. calls[c].value \in Value
      BY <1>3 DEF IInv, CallOK, Writing, Good
    <3>2. EntryOf(c) \in Content
      BY <1>1, <3>1, BoundsAssumption DEF EntryOf, Content, Entry, CallInfo
    <3> QED BY <1>2, <2>1, <3>2 DEF Flush, Content
  <2>2. CASE FlushFails(c) /\ ~Flush(c)
    BY <1>2, <2>2 DEF FlushFails, Content
  <2> QED BY <2>1, <2>2
<1>7. LockOK'
  <2>1. Home(c) \in Process
    BY <1>1, <1>3 DEF LockOK, Working, Holding
  <2>2. calls[c].pc \in Holding /\ job.pc \in Holding
    BY <1>3, <1>4 DEF Holding
  <2> QED BY <1>1, <1>3, <1>4, <2>1, <2>2, LocksKept
<1>8. Opened'
  BY <1>1, <1>3, <1>4, <1>5 DEF Opened, Home
<1>9. ASSUME Sole' PROVE WholeOK'
  <2>1. Sole /\ WholeOK
    BY <1>1, <1>3, <1>9 DEF Sole
  <2>2. tmp = f /\ file[f] = Empty /\ tmp' = f
    BY <1>2, <1>3, <2>1 DEF WholeOK
  <2>3. path' # None => file'[path'] \notin {Empty, Torn} /\ path' # tmp'
    <3>1. path # None => path \in Call /\ path # f
      BY <1>1, <2>1, <2>2 DEF Types, WholeOK
    <3>2. path # None => file'[path] = file[path]
      BY <1>1, <1>6, <3>1 DEF Types
    <3> QED BY <1>3, <2>1, <2>2, <3>1, <3>2 DEF WholeOK
  <2>4. \A d \in Call : d # c => calls[d].pc \notin {"flush", "replace"}
    BY <1>1, <1>3, <2>1, Alone
  <2>5. job.pc = "replace" => file'[f] \notin {Empty, Torn}
    <3>1. Flush(c) => content = EntryOf(c)
      BY <1>6, <2>2
    <3>2. EntryOf(c) \in Entry
      <4>1. calls[c].value \in Value
        BY <1>3 DEF IInv, CallOK, Writing, Good
      <4> QED BY <1>1, <4>1, BoundsAssumption DEF EntryOf, Entry, CallInfo
    <3>3. EntryOf(c) \notin {Empty, Torn}
      BY <3>2, ContentAssumption
    <3>4. file'[f] = content
      BY <1>1, <1>6 DEF Types
    <3> QED BY <1>4, <3>1, <3>3, <3>4
  <2>6. ASSUME NEW d \in Call
        PROVE  /\ calls'[d].error # "gone"
               /\ calls'[d].pc \in {"flush", "replace"} =>
                    calls'[d].fd \in Call /\ tmp' = calls'[d].fd
               /\ calls'[d].pc = "flush" => file'[calls'[d].fd] = Empty
               /\ calls'[d].pc = "replace" => file'[calls'[d].fd] \notin {Empty, Torn}
    <3>1. CASE d = c
      BY <3>1, <1>4, <1>5, <2>1, <2>2, <2>5 DEF WholeOK
    <3>2. CASE d # c
      BY <3>2, <1>5, <2>1, <2>4 DEF WholeOK
    <3> QED BY <3>1, <3>2
  <2> QED BY <2>3, <2>6 DEF WholeOK
<1> QED BY <1>7, <1>8, <1>9

\* The file that gets in the place of the entry is the one just written.
LEMMA ReplaceKeeps ==
  ASSUME IInv, DiskInv, NEW c \in Call, Replace(c)
  PROVE  LockOK' /\ Opened' /\ (Sole' => WholeOK')
<1>1. /\ Types /\ LockOK /\ Opened /\ (Sole => WholeOK) /\ calls[c] \in CallInfo
      /\ Home(c) = calls[c].process /\ None \notin Call
  BY NoneAssumption DEF IInv, DiskInv, Types, Home
<1>2. calls[c].pc = "replace" /\ UNCHANGED <<file, lock, writers>>
  BY DEF Replace
<1>3. PICK job :
        /\ calls' = [calls EXCEPT ![c] = job]
        /\ job.process = Home(c) /\ job.pc = "clean"
        /\ job.error = calls[c].error \/ tmp = None
  <2>1. CASE Goto(c, "clean")
    <3> DEFINE job == [calls[c] EXCEPT !.pc = "clean"]
    <3>1. /\ calls' = [calls EXCEPT ![c] = job]
          /\ job.process = Home(c) /\ job.pc = "clean" /\ job.error = calls[c].error
      BY <1>1, <2>1 DEF Goto, CallInfo
    <3> HIDE DEF job
    <3> QED BY <3>1
  <2>2. CASE tmp = None /\ calls' = [calls EXCEPT ![c].pc = "clean", ![c].error = "gone"]
    <3> DEFINE job == [calls[c] EXCEPT !.pc = "clean", !.error = "gone"]
    <3>1. /\ calls' = [calls EXCEPT ![c] = job]
          /\ job.process = Home(c) /\ job.pc = "clean"
      BY <1>1, <2>2 DEF CallInfo
    <3> HIDE DEF job
    <3> QED BY <2>2, <3>1
  <2> QED BY <2>1, <2>2 DEF Replace
<1>4. \A d \in Call : calls'[d] = IF d = c THEN job ELSE calls[d]
  BY <1>1, <1>3 DEF Types
<1>5. \/ tmp # None /\ path' = tmp /\ tmp' = None
      \/ tmp = None /\ path' = path /\ tmp' = tmp
  BY DEF Replace
<1>6. LockOK'
  <2>1. Home(c) \in Process
    BY <1>1, <1>2 DEF LockOK, Working, Holding
  <2>2. calls[c].pc \in Holding /\ job.pc \in Holding
    BY <1>2, <1>3 DEF Holding
  <2> QED BY <1>1, <1>2, <1>3, <2>1, <2>2, LocksKept
<1>7. Opened'
  BY <1>1, <1>2, <1>3, <1>4, <1>5 DEF Opened, Home
<1>8. ASSUME Sole' PROVE WholeOK'
  <2>1. Sole /\ WholeOK
    BY <1>1, <1>2, <1>8 DEF Sole
  <2>2. tmp \in Call /\ tmp # None /\ file[tmp] \notin {Empty, Torn}
    BY <1>1, <1>2, <2>1 DEF WholeOK
  <2>3. path' = tmp /\ tmp' = None
    BY <1>5, <2>2
  <2>4. \A d \in Call : d # c => calls[d].pc \notin {"flush", "replace"}
    BY <1>1, <1>2, <2>1, Alone
  <2>5. job.error # "gone"
    BY <1>3, <2>1, <2>2 DEF WholeOK
  <2>6. \A d \in Call : calls'[d].error # "gone" /\ calls'[d].pc \notin {"flush", "replace"}
    BY <1>3, <1>4, <2>1, <2>4, <2>5 DEF WholeOK
  <2> QED BY <1>2, <2>2, <2>3, <2>6 DEF WholeOK
<1> QED BY <1>6, <1>7, <1>8

LEMMA CleanKeeps ==
  ASSUME IInv, DiskInv, NEW c \in Call, Clean(c)
  PROVE  LockOK' /\ Opened' /\ (Sole' => WholeOK')
<1>1. /\ Types /\ LockOK /\ Opened /\ (Sole => WholeOK) /\ calls[c] \in CallInfo
      /\ Home(c) = calls[c].process /\ None \notin Call
  BY NoneAssumption DEF IInv, DiskInv, Types, Home
<1>2. /\ calls[c].pc = "clean" /\ UNCHANGED <<file, path, writers>> /\ Unlock(c) /\ tmp' = None
  BY DEF Clean
<1>3. PICK job :
        /\ calls' = [calls EXCEPT ![c] = job]
        /\ job.pc \in {"done", "raised"} /\ job.error = calls[c].error
  <2> DEFINE rest == Resting(IF calls[c].error = "none" THEN "done" ELSE "raised")
             job == [rest EXCEPT !.stamp = calls[c].stamp, !.value = calls[c].value,
                                 !.error = calls[c].error]
  <2>1. calls' = [calls EXCEPT ![c] = job]
    BY DEF Clean, Return
  <2>2. job.pc \in {"done", "raised"} /\ job.error = calls[c].error
    BY DEF Resting
  <2> HIDE DEF job
  <2> QED BY <2>1, <2>2
<1>4. \A d \in Call : calls'[d] = IF d = c THEN job ELSE calls[d]
  BY <1>1, <1>3 DEF Types
<1>5. LockOK'
  BY <1>1, <1>2, <1>3, LockGiven DEF Holding, Working
<1>6. Opened'
  BY <1>1, <1>2, <1>3, <1>4 DEF Opened, Home
<1>7. ASSUME Sole' PROVE WholeOK'
  <2>1. Sole /\ WholeOK
    BY <1>1, <1>2, <1>7 DEF Sole
  <2>2. \A d \in Call : d # c => calls[d].pc \notin {"flush", "replace"}
    BY <1>1, <1>2, <2>1, Alone
  <2>3. \A d \in Call : calls'[d].error # "gone" /\ calls'[d].pc \notin {"flush", "replace"}
    BY <1>3, <1>4, <2>1, <2>2 DEF WholeOK
  <2> QED BY <1>1, <1>2, <2>1, <2>3 DEF WholeOK
<1> QED BY <1>5, <1>6, <1>7

\* A crash leaves the temporary file behind, as it is.
LEMMA CrashKeeps ==
  ASSUME IInv, DiskInv, NEW p \in Process, Crash(p)
  PROVE  LockOK' /\ Opened' /\ (Sole' => WholeOK')
<1>1. /\ Types /\ LockOK /\ Opened /\ (Sole => WholeOK) /\ None \notin Call /\ None \notin Process
  BY NoneAssumption DEF IInv, DiskInv
<1>2. UNCHANGED <<file, path, tmp, writers>> /\ lock' = [lock EXCEPT ![p] = None]
  BY DEF Crash, disk
<1>3. /\ Resting("lost").pc = "lost" /\ Resting("lost").error = "none"
      /\ \A d \in Call : calls'[d] = IF Home(d) = p THEN Resting("lost") ELSE calls[d]
  BY DEF Crash, Resting
<1>4. LockOK'
  <2>1. lock' \in [Process -> Call \cup {None}]
    BY <1>1, <1>2 DEF LockOK
  <2>2. \A d \in Call : calls'[d].pc \in Working => calls'[d].process \in Process
    BY <1>1, <1>3 DEF LockOK, Home, Working, Holding
  <2>3. ASSUME NEW q \in Process, NEW d \in Call
        PROVE  lock'[q] = d <=> calls'[d].process = q /\ calls'[d].pc \in Holding
    <3>1. lock[q] = d <=> calls[d].process = q /\ calls[d].pc \in Holding
      BY <1>1 DEF LockOK, Home
    <3>2. lock'[q] = IF q = p THEN None ELSE lock[q]
      BY <1>1, <1>2 DEF LockOK
    <3>3. CASE Home(d) = p
      <4>1. calls'[d].pc \notin Holding
        BY <1>3, <3>3 DEF Holding
      <4>2. lock'[q] # d
        BY <1>1, <3>1, <3>2, <3>3 DEF Home
      <4> QED BY <4>1, <4>2
    <3>4. CASE Home(d) # p
      <4>1. calls'[d] = calls[d]
        BY <1>3, <3>4
      <4> QED BY <1>1, <3>1, <3>2, <3>4, <4>1 DEF Home
    <3> QED BY <3>3, <3>4
  <2> QED BY <2>1, <2>2, <2>3 DEF LockOK, Home
<1>5. Opened'
  <2>1. \A d \in Call : calls'[d].pc \in {"flush", "replace", "clean"} => calls'[d].process \in writers'
    BY <1>1, <1>2, <1>3 DEF Opened, Home
  <2>2. \A d \in Call : path' = d \/ tmp' = d =>
          calls'[d].pc \in {"flush", "replace", "clean", "done", "raised", "lost"}
    BY <1>1, <1>2, <1>3 DEF Opened
  <2> QED BY <2>1, <2>2 DEF Opened, Home
<1>6. ASSUME Sole' PROVE WholeOK'
  <2>1. WholeOK
    BY <1>1, <1>2, <1>6 DEF Sole
  <2>2. ASSUME NEW d \in Call
        PROVE  /\ calls'[d].error # "gone"
               /\ calls'[d].pc \in {"flush", "replace"} =>
                    calls'[d].fd \in Call /\ tmp' = calls'[d].fd
               /\ calls'[d].pc = "flush" => file'[calls'[d].fd] = Empty
               /\ calls'[d].pc = "replace" => file'[calls'[d].fd] \notin {Empty, Torn}
    <3>1. CASE Home(d) = p
      BY <1>3, <3>1
    <3>2. CASE Home(d) # p
      BY <1>2, <1>3, <2>1, <3>2 DEF WholeOK
    <3> QED BY <3>1, <3>2
  <2> QED BY <1>2, <2>1, <2>2 DEF WholeOK
<1> QED BY <1>4, <1>5, <1>6

\* Every step keeps the locks and the files right.
LEMMA DiskNext == IInv /\ DiskInv /\ [Next]_vars => DiskInv'
<1> SUFFICES ASSUME IInv, DiskInv, [Next]_vars PROVE DiskInv'
  OBVIOUS
<1>1. Bounded'
  BY BoundedNext DEF IInv, DiskInv
<1>2. CASE UNCHANGED <<disk, lock, calls, writers>>
  <2>1. UNCHANGED <<file, path, tmp, lock, calls, writers>>
    BY <1>2 DEF disk
  <2>2. LockOK' /\ Opened' /\ (Sole' => WholeOK')
    BY <2>1 DEF DiskInv, LockOK, Opened, WholeOK, Sole, Home
  <2> QED BY <1>1, <2>2 DEF DiskInv
<1>3. ASSUME NEW c \in Call, Step(c) PROVE DiskInv'
  <2>1. LockOK' /\ Opened' /\ (Sole' => WholeOK')
    BY <1>3, EarlyKeeps, OpenKeeps, FlushKeeps, ReplaceKeeps, CleanKeeps, Zenon DEF Step
  <2> QED BY <1>1, <2>1 DEF DiskInv
<1>4. ASSUME NEW c \in Call, NEW p \in Process, Begin(c, p) PROVE DiskInv'
  BY <1>1, <1>4, BeginKeeps DEF DiskInv
<1>5. ASSUME NEW p \in Process, Crash(p) PROVE DiskInv'
  BY <1>1, <1>5, CrashKeeps DEF DiskInv
<1>6. CASE Tick \/ Rename \/ UNCHANGED vars
  BY <1>2, <1>6 DEF Tick, Rename, vars, disk
<1> QED BY <1>3, <1>4, <1>5, <1>6 DEF Next

-------------------------------------------------------------------------------
\* The variables hold the kinds of values the code keeps in them, and a call
\* within the locked part, and no other, holds the lock of its process.
THEOREM TypeCorrect == Spec => []TypeOK
<1>1. IInv /\ DiskInv => TypeOK
  BY DEF IInv, DiskInv, Types, Bounded, LockOK, TypeOK
<1> QED BY <1>1, InitInv, NextInv, DiskInit, DiskNext, PTL DEF Spec

\* While one process alone has written the entry, through its crashes, failures
\* and concurrent threads, the entry in place is whole and no write finds its
\* temporary file gone, however many calls and processes there are.
THEOREM OneWriterIsSafe == Spec => []SoleWriterIsSafe
<1>1. IInv /\ DiskInv => SoleWriterIsSafe
  BY DEF DiskInv, WholeOK, Sole, SoleWriterIsSafe, Readable
<1> QED BY <1>1, InitInv, NextInv, DiskInit, DiskNext, PTL DEF Spec
===============================================================================
