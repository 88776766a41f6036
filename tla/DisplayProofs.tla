---------------------------- MODULE DisplayProofs ----------------------------
(***************************************************************************)
(* Proofs about cmdline.Display: for any set of stages and any of them     *)
(* echoed, it is shown what each stage came to, and never forwards a code  *)
(* to a channel that is closed or that nobody reads.                       *)
(***************************************************************************)
EXTENDS Display, TLAPS

-----------------------------------------------------------------------------
(* The inductive invariant.                                                *)

\* What the sender has told of a stage in the end.
Outcome(s) == IF sent[s] = "echoed" THEN "success" ELSE sent[s]

\* The summaries channel holds one of stage s.
Coming(s) == in # <<>> /\ Head(in).stage = s

\* Code c of instance i is somewhere between Receive and the terminal.
Heard(i, c) ==
  \/ held = <<[inst |-> i, code |-> c]>> \/ codes[i] = <<c>>
  \/ relay[i] = c \/ done[i] = <<c>> \/ printed[i] = c

\* The entries of a stage: at most the last one made is in the map, and it is
\* there until its progress has deleted it.
EntryInv ==
  \A s \in Stages :
    /\ ongoing[s] \in {0, made[s]}
    /\ \A n \in {1, 2} :
         IF n <= made[s]
         THEN /\ prog[<<s, n>>] # "none" /\ relay[<<s, n>>] # "none"
              /\ prog[<<s, n>>] = "finished" <=> ongoing[s] # n
         ELSE prog[<<s, n>>] = "none" /\ relay[<<s, n>>] = "none"

\* The sender against the entries: "started" makes the first entry, and only
\* an echo makes the second, the last summary of its stage.
SentInv ==
  /\ in # <<>> /\ Head(in).code \in Final => Head(in).code = Outcome(Head(in).stage)
  /\ \A s \in Stages :
       /\ sent[s] # "none" /\ made[s] = 0 => in = <<[stage |-> s, code |-> "started"]>>
       /\ made[s] = 2 => sent[s] = "echoed" /\ ~Coming(s)

\* A final code on its way is the outcome of its stage, has been counted if it
\* is a failure, and nothing but an echo comes after it.
FinalInv ==
  \A i \in Instances, c \in Final :
    Heard(i, c) =>
      /\ c = Outcome(i[1])
      /\ c = "failure" => failed
      /\ sent[i[1]] # "echoed" => ~Coming(i[1])

\* A failure that was counted is the outcome of some stage.
FailedInv == failed => \E s \in Stages : sent[s] = "failure"

\* Where Display and the goroutines are against the channels they share.
PlaceInv ==
  /\ dpc \in {"loop", "forward"} => shut = {}
  /\ dpc = "forward" => held # <<>> /\ relay[Head(held).inst] # "none"
  /\ dpc \in {"closing", "wait", "returned"} => inClosed /\ in = <<>>
  /\ dpc = "returned" => \A i \in Instances : prog[i] \in {"none", "finished"}
  /\ \A i \in Instances :
       /\ relay[i] = "ended" => i \in shut
       /\ prog[i] \in {"delete", "finished"} => printed[i] # "none"

IInv == TypeOK /\ EntryInv /\ SentInv /\ FinalInv /\ FailedInv /\ PlaceInv

-----------------------------------------------------------------------------
(* Every step of the program keeps it.                                     *)

\* The tuples of one code, one summary or one held code, as the provers need
\* to know them.
LEMMA OneElement ==
  /\ \A c : <<c>> # <<>> /\ Head(<<c>>) = c
  /\ \A c, d : <<c>> = <<d>> => c = d
OBVIOUS

\* The steps of the program, with what an arrival does to the entry of its stage.
LEMMA Steps ==
  ASSUME [Next]_vars
  PROVE  \/ /\ dpc \notin {"returned", "thrown"}
            /\ \/ Send \/ CloseStream
               \/ Receive /\ Announce(Head(in))
               \/ Receive /\ Hold(Head(in))
               \/ Forward \/ Leave \/ CloseChannels \/ Return \/ MapRace
               \/ \E i \in Instances :
                    /\ RelayTake(i) \/ RelayPut(i) \/ RelayEnd(i) \/ ProgressEnd(i)
                    /\ UNCHANGED <<envVars, mainVars, ongoing>>
               \/ \E i \in Instances :
                    ProgressDelete(i) /\ UNCHANGED <<envVars, mainVars>>
         \/ UNCHANGED vars
<1>1. Receive => Announce(Head(in)) \/ Hold(Head(in))
  BY DEF Receive
<1>2. ASSUME NEW i \in Instances, RelayStep(i) \/ ProgressStep(i)
      PROVE  \/ /\ RelayTake(i) \/ RelayPut(i) \/ RelayEnd(i) \/ ProgressEnd(i)
                /\ UNCHANGED <<envVars, mainVars, ongoing>>
             \/ ProgressDelete(i) /\ UNCHANGED <<envVars, mainVars>>
  BY <1>2 DEF RelayStep, ProgressStep
<1> QED
  BY <1>1, <1>2 DEF Next, Alive, DisplayStep

\* Every step keeps the types.
LEMMA TypeNext ==
  ASSUME IInv, [Next]_vars
  PROVE  TypeOK'
<1> USE DEF Instances, Codes, Final, envVars, senderVars, mainVars, progVars
<1>0. TypeOK
  BY DEF IInv
<1>1. CASE Send
  BY <1>0, <1>1 DEF Send, SendOne, Put, TypeOK
<1>2. CASE CloseStream
  BY <1>0, <1>2 DEF CloseStream, CloseIn, TypeOK
<1>3. CASE Receive /\ Announce(Head(in))
  <2>1. PICK s \in Stages, c \in Codes : in = <<[stage |-> s, code |-> c]>>
    BY <1>0, <1>3 DEF Receive, TypeOK
  <2>2. Head(in).stage = s /\ made[s] \in 0 .. 2 /\ made[s] # 2
    <3>1. in # <<>> /\ Head(in).stage = s
      BY <2>1
    <3> QED
      BY <1>0, <3>1 DEF IInv, SentInv, Coming, TypeOK
  <2>3. <<s, made[s] + 1>> \in Instances /\ made[s] + 1 \in 0 .. 2
    BY <2>2
  <2> DEFINE i == <<s, made[s] + 1>>
  <2>4. /\ made' = [made EXCEPT ![s] = made[s] + 1] /\ ongoing' = [ongoing EXCEPT ![s] = made[s] + 1]
        /\ prog' = [prog EXCEPT ![i] = "poll"] /\ relay' = [relay EXCEPT ![i] = "range"]
    BY <1>3, <2>2 DEF Announce
  <2> HIDE DEF i
  <2>5. /\ in' = <<>> /\ failed' \in BOOLEAN
        /\ UNCHANGED <<inClosed, sent, dpc, held, codes, shut, done, printed>>
    BY <1>0, <1>3 DEF Receive, Announce, TypeOK
  <2> QED
    BY <1>0, <2>3, <2>4, <2>5 DEF TypeOK
<1>4. CASE Receive /\ Hold(Head(in))
  <2>1. PICK s \in Stages, c \in Codes : in = <<[stage |-> s, code |-> c]>>
    BY <1>0, <1>4 DEF Receive, TypeOK
  <2>2. <<s, ongoing[s]>> \in Instances
    BY <1>0, <1>4, <2>1 DEF Hold, TypeOK
  <2> QED
    BY <1>0, <1>4, <2>1, <2>2 DEF Receive, Hold, TypeOK
<1>5. CASE Forward /\ dpc = "forward"
  <2>1. PICK i \in Instances, c \in Codes : held = <<[inst |-> i, code |-> c]>>
    BY <1>0, <1>5 DEF IInv, PlaceInv, TypeOK
  <2> QED
    BY <1>0, <1>5, <2>1 DEF Forward, TypeOK
<1>6. CASE Leave \/ Return \/ MapRace
  BY <1>0, <1>6 DEF Leave, Return, MapRace, TypeOK
<1>7. CASE CloseChannels
  BY <1>0, <1>7 DEF CloseChannels, TypeOK
<1>8. CASE \E i \in Instances :
             /\ RelayTake(i) \/ RelayPut(i) \/ RelayEnd(i) \/ ProgressEnd(i)
             /\ UNCHANGED <<envVars, mainVars, ongoing>>
  <2>1. PICK i \in Instances : RelayTake(i) \/ RelayPut(i) \/ RelayEnd(i) \/ ProgressEnd(i)
    BY <1>8
  <2>2. CASE RelayTake(i)
    <3>1. PICK c \in Codes : codes[i] = <<c>>
      BY <1>0, <2>2 DEF RelayTake, TypeOK
    <3>2. Head(codes[i]) = c
      BY <3>1
    <3> QED
      BY <1>0, <1>8, <2>2, <3>2 DEF RelayTake, TypeOK
  <2>3. CASE RelayPut(i)
    BY <1>0, <1>8, <2>3 DEF RelayPut, TypeOK
  <2>4. CASE RelayEnd(i)
    BY <1>0, <1>8, <2>4 DEF RelayEnd, TypeOK
  <2>5. CASE ProgressEnd(i)
    BY <1>0, <1>8, <2>5 DEF ProgressEnd, TypeOK
  <2> QED
    BY <2>1, <2>2, <2>3, <2>4, <2>5
<1>9. CASE \E i \in Instances : ProgressDelete(i) /\ UNCHANGED <<envVars, mainVars>>
  BY <1>0, <1>9 DEF ProgressDelete, TypeOK
<1>10. CASE UNCHANGED vars
  BY <1>0, <1>10 DEF vars, TypeOK
<1>11. Forward => dpc = "forward"
  BY DEF Forward
<1> QED
  BY <1>1, <1>2, <1>3, <1>4, <1>5, <1>6, <1>7, <1>8, <1>9, <1>10, <1>11, Steps

\* What `in` and `held` hold, when they hold anything.
LEMMA Contents ==
  ASSUME TypeOK
  PROVE  /\ in # <<>> => Head(in).stage \in Stages /\ Head(in).code \in Codes
         /\ in # <<>> => in = <<[stage |-> Head(in).stage, code |-> Head(in).code]>>
         /\ held # <<>> => Head(held).inst \in Instances /\ Head(held).code \in Codes
         /\ held # <<>> => held = <<[inst |-> Head(held).inst, code |-> Head(held).code]>>
<1>1. ASSUME in # <<>>
      PROVE  /\ Head(in).stage \in Stages /\ Head(in).code \in Codes
             /\ in = <<[stage |-> Head(in).stage, code |-> Head(in).code]>>
  <2>1. PICK s \in Stages, c \in Codes : in = <<[stage |-> s, code |-> c]>>
    BY <1>1 DEF TypeOK
  <2> QED
    BY <2>1
<1>2. ASSUME held # <<>>
      PROVE  /\ Head(held).inst \in Instances /\ Head(held).code \in Codes
             /\ held = <<[inst |-> Head(held).inst, code |-> Head(held).code]>>
  <2>1. PICK i \in Instances, c \in Codes : held = <<[inst |-> i, code |-> c]>>
    BY <1>2 DEF TypeOK
  <2> QED
    BY <2>1
<1> QED
  BY <1>1, <1>2

\* What an entry made for stage s is.
LEMMA NewEntry ==
  ASSUME IInv, Receive, Announce(Head(in))
  PROVE  \E s \in Stages :
           /\ Coming(s) /\ ongoing[s] = 0 /\ made[s] \in {0, 1}
           /\ made' = [made EXCEPT ![s] = made[s] + 1]
           /\ ongoing' = [ongoing EXCEPT ![s] = made[s] + 1]
           /\ <<s, made[s] + 1>> \in Instances
           /\ prog' = [prog EXCEPT ![<<s, made[s] + 1>>] = "poll"]
           /\ relay' = [relay EXCEPT ![<<s, made[s] + 1>>] = "range"]
<1> DEFINE s == Head(in).stage
<1>1. TypeOK /\ s \in Stages /\ Coming(s)
  BY Contents DEF IInv, Receive, Coming
<1>2. made[s] \in {0, 1}
  BY <1>1 DEF IInv, SentInv, TypeOK
<1>3. <<s, made[s] + 1>> \in Instances
  BY <1>1, <1>2 DEF Instances
<1> QED
  BY <1>1, <1>2, <1>3 DEF Announce

\* Every step keeps what EntryInv says of the entries of the stages.
LEMMA EntryNext ==
  ASSUME IInv, [Next]_vars
  PROVE  EntryInv'
<1> USE DEF Instances, envVars, senderVars, mainVars, progVars
<1>0. TypeOK /\ EntryInv
  BY DEF IInv
<1>1. CASE UNCHANGED <<made, ongoing, prog, relay>>
  BY <1>0, <1>1 DEF EntryInv
<1>2. CASE Receive /\ Announce(Head(in))
  <2>1. PICK s \in Stages :
           /\ Coming(s) /\ ongoing[s] = 0 /\ made[s] \in {0, 1}
           /\ made' = [made EXCEPT ![s] = made[s] + 1]
           /\ ongoing' = [ongoing EXCEPT ![s] = made[s] + 1]
           /\ <<s, made[s] + 1>> \in Instances
           /\ prog' = [prog EXCEPT ![<<s, made[s] + 1>>] = "poll"]
           /\ relay' = [relay EXCEPT ![<<s, made[s] + 1>>] = "range"]
    BY <1>2, NewEntry
  <2> SUFFICES ASSUME NEW t \in Stages
               PROVE  /\ ongoing'[t] \in {0, made'[t]}
                      /\ \A n \in {1, 2} :
                           IF n <= made'[t]
                           THEN /\ prog'[<<t, n>>] # "none" /\ relay'[<<t, n>>] # "none"
                                /\ prog'[<<t, n>>] = "finished" <=> ongoing'[t] # n
                           ELSE prog'[<<t, n>>] = "none" /\ relay'[<<t, n>>] = "none"
    BY DEF EntryInv
  <2>2. CASE t = s
    <3>1. made'[t] = made[s] + 1 /\ ongoing'[t] = made[s] + 1
      BY <1>0, <2>1, <2>2 DEF TypeOK
    <3>2. /\ prog'[<<t, made[s] + 1>>] = "poll" /\ relay'[<<t, made[s] + 1>>] = "range"
          /\ \A n \in {1, 2} : n # made[s] + 1 =>
               prog'[<<t, n>>] = prog[<<t, n>>] /\ relay'[<<t, n>>] = relay[<<t, n>>]
      BY <1>0, <2>1, <2>2 DEF TypeOK
    <3> QED
      BY <1>0, <2>1, <2>2, <3>1, <3>2 DEF EntryInv
  <2>3. CASE t # s
    <3>1. made'[t] = made[t] /\ ongoing'[t] = ongoing[t]
      BY <1>0, <2>1, <2>3 DEF TypeOK
    <3>2. \A n \in {1, 2} : prog'[<<t, n>>] = prog[<<t, n>>] /\ relay'[<<t, n>>] = relay[<<t, n>>]
      BY <1>0, <2>1, <2>3 DEF TypeOK
    <3> QED
      BY <1>0, <3>1, <3>2 DEF EntryInv
  <2> QED
    BY <2>2, <2>3
<1>3. ASSUME NEW i \in Instances, UNCHANGED <<envVars, mainVars, ongoing>>,
             RelayTake(i) \/ RelayPut(i) \/ RelayEnd(i) \/ ProgressEnd(i)
      PROVE  EntryInv'
  <2>1. UNCHANGED <<made, ongoing>>
    BY <1>3
  <2>2. \A j \in Instances : (relay'[j] = "none" <=> relay[j] = "none")
    BY <1>0, <1>3 DEF RelayTake, RelayPut, RelayEnd, ProgressEnd, TypeOK, Final
  <2>3. \A j \in Instances : (prog'[j] = "none" <=> prog[j] = "none")
                        /\ (prog'[j] = "finished" <=> prog[j] = "finished")
    BY <1>0, <1>3 DEF RelayTake, RelayPut, RelayEnd, ProgressEnd, TypeOK
  <2>4. ASSUME NEW s \in Stages, NEW n \in {1, 2}
        PROVE  /\ relay'[<<s, n>>] = "none" <=> relay[<<s, n>>] = "none"
               /\ prog'[<<s, n>>] = "none" <=> prog[<<s, n>>] = "none"
               /\ prog'[<<s, n>>] = "finished" <=> prog[<<s, n>>] = "finished"
    BY <2>2, <2>3 DEF Instances
  <2> QED
    BY <2>1, <2>4 DEF EntryInv, IInv
<1>4. ASSUME NEW i \in Instances, ProgressDelete(i), UNCHANGED <<envVars, mainVars>>
      PROVE  EntryInv'
  <2>1. PICK s \in Stages, m \in {1, 2} : i = <<s, m>>
    OBVIOUS
  <2>2. ongoing[s] = m /\ made[s] = m
    <3>1. prog[<<s, m>>] = "delete" /\ made[s] \in 0 .. 2
      BY <1>0, <1>4, <2>1 DEF ProgressDelete, TypeOK
    <3>2. m <= made[s]
      BY <1>0, <3>1 DEF EntryInv
    <3>3. ongoing[s] = m /\ ongoing[s] \in {0, made[s]}
      BY <1>0, <3>1, <3>2 DEF EntryInv
    <3> QED
      BY <3>3
  <2>3. /\ UNCHANGED <<made, relay>>
        /\ ongoing' = [ongoing EXCEPT ![s] = 0] /\ prog' = [prog EXCEPT ![<<s, m>>] = "finished"]
    BY <1>4, <2>1 DEF ProgressDelete
  <2>4. ongoing'[s] = 0 /\ \A t \in Stages \ {s} : ongoing'[t] = ongoing[t]
    BY <1>0, <2>3 DEF TypeOK
  <2>5. /\ prog'[<<s, m>>] = "finished"
        /\ \A t \in Stages, n \in {1, 2} : <<t, n>> # <<s, m>> => prog'[<<t, n>>] = prog[<<t, n>>]
    BY <1>0, <2>3 DEF TypeOK
  <2> SUFFICES ASSUME NEW t \in Stages
               PROVE  /\ ongoing'[t] \in {0, made[t]}
                      /\ \A n \in {1, 2} :
                           IF n <= made[t]
                           THEN /\ prog'[<<t, n>>] # "none" /\ relay[<<t, n>>] # "none"
                                /\ prog'[<<t, n>>] = "finished" <=> ongoing'[t] # n
                           ELSE prog'[<<t, n>>] = "none" /\ relay[<<t, n>>] = "none"
    BY <2>3 DEF EntryInv
  <2>6. CASE t = s
    BY <1>0, <2>2, <2>4, <2>5, <2>6 DEF EntryInv
  <2>7. CASE t # s
    BY <1>0, <2>4, <2>5, <2>7 DEF EntryInv
  <2> QED
    BY <2>6, <2>7
<1> QED
  BY <1>1, <1>2, <1>3, <1>4, Steps
     DEF Send, CloseStream, Receive, Hold, Forward, Leave, CloseChannels, Return, MapRace, vars

\* Every step keeps what SentInv says of what the sender has told.
LEMMA SentNext ==
  ASSUME IInv, [Next]_vars
  PROVE  SentInv'
<1> USE DEF Instances, envVars, senderVars, mainVars, progVars
<1>0. TypeOK /\ SentInv
  BY DEF IInv
<1>1. CASE UNCHANGED <<in, sent, made>>
  BY <1>0, <1>1 DEF SentInv, Outcome, Coming
<1>2. CASE Send
  <2> UNCHANGED made
    BY <1>2 DEF Send
  <2>1. PICK s \in Stages :
           \/ /\ sent[s] = "none" /\ Put(s, "started") /\ sent' = [sent EXCEPT ![s] = "open"]
           \/ sent[s] = "open" /\ Put(s, "ongoing") /\ UNCHANGED sent
           \/ /\ sent[s] = "open"
              /\ \E c \in Final : Put(s, c) /\ sent' = [sent EXCEPT ![s] = c]
           \/ /\ sent[s] = "success"
              /\ Put(s, "success") /\ sent' = [sent EXCEPT ![s] = "echoed"]
    BY <1>2 DEF Send, SendOne
  <2>2. \A c : Put(s, c) => in = <<>> /\ in' # <<>> /\ Head(in').stage = s /\ Head(in').code = c
                          /\ in' = <<[stage |-> s, code |-> c]>>
    BY DEF Put
  <2>3. sent[s] \in {"none", "open", "success"} /\ sent'[s] # "none" /\ made[s] # 2
    BY <1>0, <2>1 DEF SentInv, TypeOK, Final
  <2>4. \A t \in Stages \ {s} : sent'[t] = sent[t]
    BY <1>0, <2>1 DEF TypeOK
  <2>5. in = <<>> /\ in' # <<>> /\ Head(in').stage = s
    BY <2>1, <2>2
  <2>6. sent[s] # "none" => made[s] # 0
    BY <1>0, <2>5 DEF SentInv
  <2>7. Head(in').code \in Final => Head(in').code = IF sent'[s] = "echoed" THEN "success" ELSE sent'[s]
    BY <1>0, <2>1, <2>2 DEF Final, TypeOK
  <2>8. made[s] = 0 => in' = <<[stage |-> s, code |-> "started"]>>
    BY <2>1, <2>2, <2>6
  <2> QED
    BY <1>0, <2>3, <2>4, <2>5, <2>7, <2>8 DEF SentInv, Outcome, Coming
<1>3. CASE Receive /\ Announce(Head(in))
  <2>1. PICK s \in Stages :
           Coming(s) /\ made[s] \in {0, 1} /\ ongoing[s] = 0 /\ made' = [made EXCEPT ![s] = made[s] + 1]
    BY <1>3, NewEntry
  <2>2. in' = <<>> /\ UNCHANGED sent
    BY <1>3 DEF Receive
  <2>3. made[s] = 1 => sent[s] = "echoed"
    <3>1. made[s] = 1 => prog[<<s, 1>>] = "finished" /\ printed[<<s, 1>>] # "none"
      <4>1. <<s, 1>> \in Instances
        OBVIOUS
      <4>2. made[s] = 1 => prog[<<s, 1>>] = "finished"
        <5>1. 1 <= made[s] => (prog[<<s, 1>>] = "finished" <=> ongoing[s] # 1)
          BY DEF IInv, EntryInv
        <5> QED
          BY <2>1, <5>1
      <4>3. \A i \in Instances : prog[i] = "finished" => printed[i] # "none"
        BY DEF IInv, PlaceInv
      <4> QED
        BY <4>1, <4>2, <4>3
    <3>2. printed[<<s, 1>>] # "none" => printed[<<s, 1>>] \in Final
      BY <1>0 DEF TypeOK
    <3> QED
      BY <2>1, <3>1, <3>2 DEF IInv, FinalInv, Heard
  <2>4. \A t \in Stages : made'[t] = IF t = s THEN made[s] + 1 ELSE made[t]
    BY <1>0, <2>1 DEF TypeOK
  <2>5. \A t \in Stages \ {s} : sent[t] # "none" => made[t] # 0
    <3>1. \A t, c : in = <<[stage |-> t, code |-> c]>> => t = s
      BY <2>1 DEF Coming
    <3> QED
      BY <1>0, <3>1 DEF SentInv
  <2> QED
    BY <1>0, <2>1, <2>2, <2>3, <2>4, <2>5 DEF SentInv, Coming
<1>4. CASE Receive /\ Hold(Head(in))
  <2>1. in' = <<>> /\ UNCHANGED <<sent, made>>
    BY <1>4 DEF Receive, Hold
  <2>2. in # <<>> /\ Head(in).stage \in Stages /\ made[Head(in).stage] # 0
    BY <1>0, <1>4, Contents DEF IInv, EntryInv, Receive, Hold
  <2>3. \A t \in Stages : sent[t] # "none" => made[t] # 0
    <3>1. \A t, c : in = <<[stage |-> t, code |-> c]>> => t = Head(in).stage
      OBVIOUS
    <3> QED
      BY <1>0, <2>2, <3>1 DEF SentInv
  <2> QED
    BY <1>0, <2>1, <2>3 DEF SentInv, Coming
<1> QED
  BY <1>1, <1>2, <1>3, <1>4, Steps
     DEF CloseStream, CloseIn, Forward, Leave, CloseChannels, Return, MapRace, vars,
         ProgressDelete

\* A step that only moves codes between Receive and the terminal.
LEMMA CodesMove ==
  ASSUME FinalInv, UNCHANGED <<in, sent, failed>>,
         \A i \in Instances, c \in Final : Heard(i, c)' => Heard(i, c)
  PROVE  FinalInv'
<1>1. UNCHANGED in /\ UNCHANGED sent /\ UNCHANGED failed
  OBVIOUS
<1>2. ASSUME NEW i \in Instances, NEW c \in Final, Heard(i, c)'
      PROVE  /\ c = Outcome(i[1])' /\ (c = "failure" => failed')
             /\ sent'[i[1]] # "echoed" => ~Coming(i[1])'
  <2>1. Heard(i, c)
    BY <1>2
  <2> HIDE DEF Heard
  <2> QED
    BY <1>1, <2>1 DEF FinalInv, Outcome, Coming
<1> QED
  BY <1>2 DEF FinalInv

\* Every step keeps what FinalInv says of the final codes.
LEMMA FinalNext ==
  ASSUME IInv, [Next]_vars
  PROVE  FinalInv'
<1> USE DEF envVars, senderVars, mainVars, progVars
<1>0. TypeOK /\ FinalInv
  BY DEF IInv
<1>1. CASE UNCHANGED <<in, sent, failed, held, codes, relay, done, printed>>
  BY <1>0, <1>1, CodesMove DEF Heard
<1>2. CASE Send
  <2>1. PICK s \in Stages :
           /\ in = <<>> /\ Coming(s)'
           /\ \/ sent[s] \in {"none", "open"} /\ \E x : sent' = [sent EXCEPT ![s] = x]
              \/ sent[s] = "success" /\ sent' = [sent EXCEPT ![s] = "echoed"]
    <3>1. \A t \in Stages : sent = [sent EXCEPT ![t] = sent[t]]
      BY <1>0 DEF TypeOK
    <3>2. \A t, c : Put(t, c) => in = <<>> /\ Coming(t)'
      BY DEF Put, Coming
    <3> QED
      BY <1>2, <3>1, <3>2 DEF Send, SendOne
  <2>2. UNCHANGED <<failed, held, codes, relay, done, printed>>
    BY <1>2 DEF Send
  <2>3. ASSUME NEW i \in Instances, NEW c \in Final, Heard(i, c)'
        PROVE  /\ c = Outcome(i[1])' /\ (c = "failure" => failed')
               /\ sent'[i[1]] # "echoed" => ~Coming(i[1])'
    <3>1. Heard(i, c)
      BY <2>2, <2>3 DEF Heard
    <3>2. c = Outcome(i[1]) /\ (c = "failure" => failed) /\ i[1] \in Stages
      BY <1>0, <3>1 DEF FinalInv, Instances
    <3>3. CASE i[1] = s
      <4>1. sent[s] = "success" /\ sent'[s] = "echoed"
        BY <1>0, <2>1, <3>2, <3>3 DEF Outcome, Final, TypeOK
      <4> QED
        BY <2>2, <3>2, <3>3, <4>1 DEF Outcome
    <3>4. CASE i[1] # s
      <4>1. sent'[i[1]] = sent[i[1]] /\ ~Coming(i[1])'
        BY <1>0, <2>1, <3>2, <3>4 DEF TypeOK, Coming
      <4> QED
        BY <2>2, <3>2, <4>1 DEF Outcome
    <3> QED
      BY <3>3, <3>4
  <2> QED
    BY <2>3 DEF FinalInv
<1>3. CASE Receive
  <2>1. in # <<>> /\ in' = <<>> /\ UNCHANGED sent /\ failed' = (failed \/ Head(in).code = "failure")
    BY <1>3 DEF Receive
  <2>2. ASSUME NEW i \in Instances, NEW c \in Final, Heard(i, c)'
        PROVE  \/ Heard(i, c)
               \/ Hold(Head(in)) /\ i[1] = Head(in).stage /\ c = Head(in).code
    <3>1. CASE Announce(Head(in))
      <4>1. /\ UNCHANGED <<held, codes, done, printed>>
            /\ \E x \in Instances : relay' = [relay EXCEPT ![x] = "range"]
        BY <1>3, <3>1, NewEntry DEF Announce
      <4>2. relay'[i] = c => relay[i] = c
        BY <1>0, <4>1 DEF TypeOK, Final
      <4>3. held' = held /\ codes' = codes /\ done' = done /\ printed' = printed
        BY <4>1
      <4>4. Heard(i, c)
        BY <2>2, <4>2, <4>3 DEF Heard
      <4> QED
        BY <4>4
    <3>2. CASE Hold(Head(in))
      <4>1. /\ UNCHANGED <<codes, relay, done, printed>>
            /\ held' = <<[inst |-> <<Head(in).stage, ongoing[Head(in).stage]>>, code |-> Head(in).code]>>
        BY <3>2 DEF Hold
      <4>2. held' = <<[inst |-> i, code |-> c]>> => i[1] = Head(in).stage /\ c = Head(in).code
        BY <4>1, OneElement
      <4>3. codes' = codes /\ relay' = relay /\ done' = done /\ printed' = printed
        BY <4>1
      <4>4. held' = <<[inst |-> i, code |-> c]>> \/ Heard(i, c)
        BY <2>2, <4>3 DEF Heard
      <4> QED
        BY <3>2, <4>2, <4>4
    <3> QED
      BY <1>3, <3>1, <3>2 DEF Receive
  <2>3. ASSUME NEW i \in Instances, NEW c \in Final, Heard(i, c)'
        PROVE  c = Outcome(i[1]) /\ (c = "failure" => failed')
    <3>1. CASE Heard(i, c)
      BY <1>0, <2>1, <3>1 DEF FinalInv
    <3>2. CASE i[1] = Head(in).stage /\ c = Head(in).code
      BY <2>1, <3>2 DEF IInv, SentInv
    <3> QED
      BY <2>2, <2>3, <3>1, <3>2
  <2>4. \A s : Outcome(s)' = Outcome(s) /\ ~Coming(s)'
    BY <2>1 DEF Outcome, Coming
  <2> QED
    BY <2>3, <2>4 DEF FinalInv
<1>4. CASE CloseStream \/ Leave \/ CloseChannels \/ Return \/ MapRace
  BY <1>1, <1>4 DEF CloseStream, CloseIn, Leave, CloseChannels, Return, MapRace
<1>5. CASE Forward
  <2>1. UNCHANGED <<in, sent, failed, relay, done, printed>> /\ held' = <<>>
    BY <1>5 DEF Forward
  <2>2. held # <<>>
    BY <1>5 DEF Forward, IInv, PlaceInv
  <2> DEFINE h == Head(held)
  <2>3. /\ h.inst \in Instances /\ codes' = [codes EXCEPT ![h.inst] = <<h.code>>]
        /\ held = <<[inst |-> h.inst, code |-> h.code]>>
    BY <1>0, <1>5, <2>2, Contents DEF Forward
  <2> HIDE DEF h
  <2>4. ASSUME NEW i \in Instances, NEW c \in Final, Heard(i, c)'
        PROVE  Heard(i, c)
    <3>1. codes'[i] = <<c>> => codes[i] = <<c>> \/ (h.inst = i /\ h.code = c)
      <4>1. codes'[i] = IF i = h.inst THEN <<h.code>> ELSE codes[i]
        BY <1>0, <2>3 DEF TypeOK
      <4> QED
        BY <4>1, OneElement
    <3>2. held' # <<[inst |-> i, code |-> c]>>
      BY <2>1
    <3> QED
      BY <2>1, <2>3, <2>4, <3>1, <3>2 DEF Heard
  <2> QED
    BY <1>0, <2>1, <2>4, CodesMove
<1>6. ASSUME NEW i \in Instances, UNCHANGED <<envVars, mainVars, ongoing>>,
             RelayTake(i) \/ RelayPut(i) \/ RelayEnd(i) \/ ProgressEnd(i)
      PROVE  FinalInv'
  <2>1. UNCHANGED <<in, sent, failed, held>>
    BY <1>6
  <2>2. ASSUME NEW j \in Instances, NEW c \in Final, Heard(j, c)'
        PROVE  Heard(j, c)
    <3>1. \A d \in Codes \union Final : <<d>> # <<>> /\ Head(<<d>>) = d
      OBVIOUS
    <3>2. CASE RelayTake(i)
      <4>1. PICK d \in Codes : codes[i] = <<d>>
        BY <1>0, <3>2 DEF RelayTake, TypeOK
      <4>2. relay'[j] = c => relay[j] = c \/ (j = i /\ d = c)
        <5>1. Head(codes[i]) = d
          BY <4>1
        <5>2. relay' = relay \/ relay' = [relay EXCEPT ![i] = d]
          BY <3>2, <5>1 DEF RelayTake
        <5> QED
          BY <1>0, <5>2 DEF TypeOK
      <4>3. codes'[j] = <<c>> => codes[j] = <<c>>
        BY <1>0, <3>1, <3>2 DEF RelayTake, TypeOK
      <4> QED
        BY <2>1, <2>2, <3>2, <4>1, <4>2, <4>3 DEF RelayTake, Heard
    <3>3. CASE RelayPut(i)
      <4>1. done'[j] = <<c>> => done[j] = <<c>> \/ (j = i /\ relay[i] = c)
        <5>1. done'[j] = IF j = i THEN <<relay[i]>> ELSE done[j]
          BY <1>0, <3>3 DEF RelayPut, TypeOK
        <5> QED
          BY <5>1, OneElement
      <4>2. relay'[j] = c => relay[j] = c
        BY <1>0, <3>3 DEF RelayPut, TypeOK, Final
      <4> QED
        BY <2>1, <2>2, <3>3, <4>1, <4>2 DEF RelayPut, Heard
    <3>4. CASE RelayEnd(i)
      <4>1. relay'[j] = c => relay[j] = c
        BY <1>0, <3>4 DEF RelayEnd, TypeOK, Final
      <4> QED
        BY <2>1, <2>2, <3>4, <4>1 DEF RelayEnd, Heard
    <3>5. CASE ProgressEnd(i)
      <4>1. PICK d \in Final : done[i] = <<d>>
        BY <1>0, <3>5 DEF ProgressEnd, TypeOK
      <4>2. printed'[j] = c => printed[j] = c \/ (j = i /\ d = c)
        <5>1. Head(done[i]) = d
          BY <4>1
        <5>2. printed' = [printed EXCEPT ![i] = d]
          BY <3>5, <5>1 DEF ProgressEnd
        <5> QED
          BY <1>0, <5>2 DEF TypeOK
      <4>3. done'[j] = <<c>> => done[j] = <<c>>
        BY <1>0, <3>1, <3>5 DEF ProgressEnd, TypeOK
      <4> QED
        BY <2>1, <2>2, <3>5, <4>1, <4>2, <4>3 DEF ProgressEnd, Heard
    <3> QED
      BY <1>6, <3>2, <3>3, <3>4, <3>5
  <2> QED
    BY <1>0, <2>1, <2>2, CodesMove
<1>7. ASSUME NEW i \in Instances, ProgressDelete(i), UNCHANGED <<envVars, mainVars>>
      PROVE  FinalInv'
  BY <1>1, <1>7 DEF ProgressDelete
<1>8. CASE UNCHANGED vars
  BY <1>1, <1>8 DEF vars
<1> QED
  BY <1>2, <1>3, <1>4, <1>5, <1>6, <1>7, <1>8, Steps

\* Every step keeps what FailedInv says of the stages that failed.
LEMMA FailedNext ==
  ASSUME IInv, [Next]_vars
  PROVE  FailedInv'
<1> USE DEF envVars, senderVars, mainVars, progVars
<1>0. TypeOK /\ FailedInv
  BY DEF IInv
<1>1. CASE UNCHANGED <<sent, failed>>
  BY <1>0, <1>1 DEF FailedInv
<1>2. CASE Send
  <2>1. UNCHANGED failed /\ \A s \in Stages : sent[s] = "failure" => sent'[s] = "failure"
    BY <1>0, <1>2 DEF Send, SendOne, TypeOK, Final
  <2> QED
    BY <1>0, <2>1 DEF FailedInv
<1>3. CASE Receive
  <2>1. UNCHANGED sent /\ failed' = (failed \/ Head(in).code = "failure") /\ in # <<>>
    BY <1>3 DEF Receive
  <2>2. Head(in).code = "failure" => sent[Head(in).stage] = "failure" /\ Head(in).stage \in Stages
    BY <1>0, <2>1, Contents DEF IInv, SentInv, Outcome, Final
  <2> QED
    BY <1>0, <2>1, <2>2 DEF FailedInv
<1> QED
  BY <1>1, <1>2, <1>3, Steps
     DEF CloseStream, CloseIn, Forward, Leave, CloseChannels, Return, MapRace, vars

\* Every step keeps what PlaceInv says of where the goroutines are.
LEMMA PlaceNext ==
  ASSUME IInv, [Next]_vars
  PROVE  PlaceInv'
<1> USE DEF envVars, senderVars, mainVars, progVars
<1>0. TypeOK /\ PlaceInv
  BY DEF IInv
<1>1. CASE Send \/ CloseStream
  BY <1>0, <1>1 DEF PlaceInv, Send, SendOne, Put, CloseStream, CloseIn
<1>2. CASE dpc # "returned" /\ Receive /\ Announce(Head(in))
  <2>1. PICK i \in Instances :
          prog' = [prog EXCEPT ![i] = "poll"] /\ relay' = [relay EXCEPT ![i] = "range"]
    BY <1>2, NewEntry
  <2>2. dpc = "loop" /\ UNCHANGED <<dpc, held, shut, printed>>
    BY <1>2 DEF Receive, Announce
  <2>3. \A j \in Instances : /\ relay'[j] = "ended" => relay[j] = "ended"
                             /\ prog'[j] \in {"delete", "finished"} => prog'[j] = prog[j]
    BY <1>0, <2>1 DEF TypeOK
  <2>4. \A j \in Instances : /\ relay'[j] = "ended" => j \in shut'
                             /\ prog'[j] \in {"delete", "finished"} => printed'[j] # "none"
    BY <1>0, <2>2, <2>3 DEF PlaceInv
  <2>5. dpc' = "loop" /\ shut' = {}
    BY <1>0, <2>2 DEF PlaceInv
  <2> QED
    BY <2>4, <2>5 DEF PlaceInv
<1>3. CASE Receive /\ Hold(Head(in))
  <2> DEFINE s == Head(in).stage
  <2>1. s \in Stages /\ ongoing[s] # 0 /\ ongoing[s] \in {1, 2}
    BY <1>0, <1>3, Contents DEF Receive, Hold, TypeOK
  <2>2. relay[<<s, ongoing[s]>>] # "none"
    <3> HIDE DEF s
    <3>1. ongoing[s] = made[s]
      BY <2>1 DEF IInv, EntryInv
    <3>2. \A n \in {1, 2} : n <= made[s] => relay[<<s, n>>] # "none"
      BY <2>1 DEF IInv, EntryInv
    <3> QED
      BY <2>1, <3>1, <3>2
  <2>3. /\ dpc = "loop" /\ dpc' = "forward" /\ UNCHANGED <<shut, relay, prog, printed>>
        /\ held' = <<[inst |-> <<s, ongoing[s]>>, code |-> Head(in).code]>>
    BY <1>3 DEF Receive, Hold
  <2>4. held' # <<>> /\ Head(held').inst = <<s, ongoing[s]>>
    BY <2>3
  <2> HIDE DEF s
  <2> QED
    BY <1>0, <2>2, <2>3, <2>4 DEF PlaceInv
<1>4. CASE Forward \/ Leave \/ CloseChannels \/ Return \/ MapRace
  BY <1>0, <1>4 DEF PlaceInv, Forward, Leave, CloseChannels, Return, MapRace
<1>5. ASSUME NEW i \in Instances, UNCHANGED <<envVars, mainVars, ongoing>>, dpc # "returned",
             RelayTake(i) \/ RelayPut(i) \/ RelayEnd(i) \/ ProgressEnd(i)
      PROVE  PlaceInv'
  <2>1. UNCHANGED <<inClosed, in, dpc, held, shut>>
    BY <1>5 DEF RelayTake, RelayPut, RelayEnd, ProgressEnd
  <2>2. \A j \in Instances : /\ relay'[j] = "none" => relay[j] = "none"
                             /\ relay'[j] = "ended" => relay[j] = "ended" \/ j \in shut
    <3>1. \A j \in Instances : relay[j] # "none" => relay'[j] # "none"
      BY <1>0, <1>5 DEF RelayTake, RelayPut, RelayEnd, ProgressEnd, TypeOK, Final
    <3>2. \A j \in Instances : relay'[j] = "ended" => relay[j] = "ended" \/ j \in shut
      BY <1>0, <1>5 DEF RelayTake, RelayPut, RelayEnd, ProgressEnd, TypeOK, Final
    <3> QED
      BY <3>1, <3>2
  <2>3. \A j \in Instances : prog'[j] \in {"delete", "finished"} => printed'[j] # "none"
    <3>1. CASE ProgressEnd(i)
      <4>1. PICK d \in Final : done[i] = <<d>>
        BY <1>0, <3>1 DEF ProgressEnd, TypeOK
      <4>2. Head(done[i]) = d /\ d # "none"
        BY <4>1 DEF Final
      <4> QED
        BY <1>0, <3>1, <4>2 DEF ProgressEnd, TypeOK, PlaceInv
    <3>2. CASE UNCHANGED <<prog, printed>>
      BY <1>0, <3>2 DEF PlaceInv
    <3> QED
      BY <1>5, <3>1, <3>2 DEF RelayTake, RelayPut, RelayEnd
  <2>4. dpc = "forward" => held # <<>> /\ Head(held).inst \in Instances /\ relay[Head(held).inst] # "none"
    BY <1>0, Contents DEF PlaceInv
  <2>5. \A j \in Instances : relay'[j] = "ended" => j \in shut'
    BY <1>0, <2>1, <2>2 DEF PlaceInv
  <2>6. dpc' = "forward" => held' # <<>> /\ relay'[Head(held').inst] # "none"
    BY <2>1, <2>2, <2>4
  <2> QED
    BY <1>0, <1>5, <2>1, <2>3, <2>5, <2>6 DEF PlaceInv
<1>6. ASSUME NEW i \in Instances, ProgressDelete(i), UNCHANGED <<envVars, mainVars>>, dpc # "returned"
      PROVE  PlaceInv'
  <2>1. \A j \in Instances : prog'[j] \in {"delete", "finished"} => prog[j] \in {"delete", "finished"}
    BY <1>0, <1>6 DEF ProgressDelete, TypeOK
  <2> QED
    BY <1>0, <1>6, <2>1 DEF ProgressDelete, PlaceInv
<1>7. CASE UNCHANGED vars
  BY <1>0, <1>7 DEF PlaceInv, vars
<1> QED
  BY <1>1, <1>2, <1>3, <1>4, <1>5, <1>6, <1>7, Steps

-----------------------------------------------------------------------------
(* What follows.                                                           *)

\* The inductive invariant holds in every reachable state.
LEMMA Invariance == Spec => []IInv
<1>1. Init => IInv
  <2> SUFFICES ASSUME Init PROVE IInv
    OBVIOUS
  <2>0. \A s \in Stages : ongoing[s] = 0 /\ made[s] = 0
    BY DEF Init
  <2>1. TypeOK
    <3>1. ongoing \in [Stages -> 0 .. 2] /\ made \in [Stages -> 0 .. 2]
      BY DEF Init
    <3>2. /\ codes \in [Instances -> {<<>>} \union {<<c>> : c \in Codes}]
          /\ done \in [Instances -> {<<>>} \union {<<c>> : c \in Final}]
          /\ in \in {<<>>} \union {<<s>> : s \in [stage : Stages, code : Codes]}
          /\ held \in {<<>>} \union {<<h>> : h \in [inst : Instances, code : Codes]}
      BY DEF Init, InitSender
    <3>3. /\ relay \in [Instances -> {"none", "range", "ended"} \union Final]
          /\ prog \in [Instances -> {"none", "poll", "delete", "finished"}]
          /\ printed \in [Instances -> {"none"} \union Final]
          /\ sent \in [Stages -> {"none", "open", "echoed"} \union Final]
      BY DEF Init, InitSender
    <3> QED
      BY <3>1, <3>2, <3>3 DEF TypeOK, Init, InitSender
  <2>2. EntryInv
    <3>1. \A s \in Stages, n \in {1, 2} : prog[<<s, n>>] = "none" /\ relay[<<s, n>>] = "none" /\ ~(n <= 0)
      BY DEF Init, Instances
    <3> QED
      BY <2>0, <3>1 DEF EntryInv
  <2>3. SentInv
    BY DEF Init, InitSender, SentInv, Coming
  <2>4. FinalInv
    <3> SUFFICES ASSUME NEW i \in Instances, NEW c \in Final PROVE ~Heard(i, c)
      BY DEF FinalInv
    <3> QED
      <4>1. /\ held = <<>> /\ codes[i] = <<>> /\ done[i] = <<>>
            /\ relay[i] = "none" /\ printed[i] = "none"
        BY DEF Init
      <4>2. \A x : <<x>> # <<>>
        BY OneElement
      <4> QED
        BY <4>1, <4>2 DEF Heard, Final
  <2>5. FailedInv /\ PlaceInv
    <3>1. \A i \in Instances : relay[i] = "none" /\ prog[i] = "none"
      BY DEF Init
    <3> QED
      BY <3>1 DEF Init, FailedInv, PlaceInv
  <2> QED
    BY <2>1, <2>2, <2>3, <2>4, <2>5 DEF IInv
<1>2. IInv /\ [Next]_vars => IInv'
  BY TypeNext, EntryNext, SentNext, FinalNext, FailedNext, PlaceNext DEF IInv
<1> QED
  BY <1>1, <1>2, PTL DEF Spec

\* Every variable of Display stays in its range, for any set of stages: in
\* particular no stage is given a third entry.
THEOREM TypeCorrect == Spec => []TypeOK
BY Invariance, PTL DEF IInv

\* No send on a closed channel and no code sent to nobody: the entry that
\* Display holds a code for is open, and its relay runs.
THEOREM NoSendOnClosed == Spec => []ForwardedToLive
<1>1. IInv => ForwardedToLive
  <2> SUFFICES ASSUME IInv, dpc = "forward"
               PROVE  Head(held).inst \notin shut /\ relay[Head(held).inst] \notin {"none", "ended"}
    BY DEF ForwardedToLive
  <2>1. shut = {} /\ relay[Head(held).inst] # "none" /\ Head(held).inst \in Instances
    BY Contents DEF IInv, PlaceInv
  <2> QED
    BY <2>1 DEF IInv, PlaceInv
<1> QED
  BY <1>1, Invariance, PTL

\* When Display returns, every stage that was announced has been shown its
\* outcome, and a failure has been counted iff one was shown.
THEOREM EveryOutcomeShown == Spec => []OutcomesShown
<1>1. IInv => OutcomesShown
  <2> SUFFICES ASSUME IInv, dpc = "returned"
               PROVE  /\ \A s \in Stages : sent[s] # "none" => printed[<<s, 1>>] = Outcome(s)
                      /\ failed <=> \E i \in Instances : printed[i] = "failure"
    BY DEF OutcomesShown, Outcome
  <2>1. TypeOK /\ in = <<>> /\ \A i \in Instances : prog[i] \in {"none", "finished"}
    BY DEF IInv, PlaceInv
  <2>2. ASSUME NEW s \in Stages, sent[s] # "none"
        PROVE  <<s, 1>> \in Instances /\ printed[<<s, 1>>] = Outcome(s)
    <3>1. <<s, 1>> \in Instances
      BY DEF Instances
    <3>2. made[s] # 0 /\ made[s] \in 0 .. 2
      BY <2>1, <2>2 DEF IInv, SentInv, TypeOK
    <3>3. 1 <= made[s] => prog[<<s, 1>>] # "none"
      BY DEF IInv, EntryInv
    <3>4. prog[<<s, 1>>] = "finished"
      BY <2>1, <3>1, <3>2, <3>3
    <3>5. printed[<<s, 1>>] \in Final
      BY <2>1, <3>1, <3>4 DEF IInv, PlaceInv, TypeOK
    <3>6. Heard(<<s, 1>>, printed[<<s, 1>>])
      BY DEF Heard
    <3> QED
      BY <3>1, <3>5, <3>6 DEF IInv, FinalInv
  <2>3. ASSUME NEW i \in Instances, printed[i] = "failure" PROVE failed
    BY <2>3 DEF IInv, FinalInv, Heard, Final
  <2>4. ASSUME failed PROVE \E i \in Instances : printed[i] = "failure"
    <3>1. PICK s \in Stages : sent[s] = "failure"
      BY <2>4 DEF IInv, FailedInv
    <3> QED
      BY <2>2, <3>1 DEF Outcome
  <2> QED
    BY <2>2, <2>3, <2>4
<1> QED
  BY <1>1, Invariance, PTL
=============================================================================
