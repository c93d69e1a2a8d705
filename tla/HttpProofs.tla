----------------------------- MODULE HttpProofs -----------------------------
(***************************************************************************)
(* For every number of calls, retries and pooled objects: no attempt works *)
(* on an object that is in the pool or that another attempt works on, and  *)
(* a call returns the reply to its own attempt.                            *)
(***************************************************************************)
EXTENDS HttpClient, TLAPS

Points == {"start", "loop", "sleep", "limiter", "select", "returned"}
Errors == {"none", "nil", "ctx", "limiter", "network", "nilResponse",
           "badRequest", "auth", "rateLimited", "non200"}

HttpTypes ==
  /\ call \in [Callers -> Points]
  /\ attempt \in [Callers -> Nat]
  /\ lastErr \in [Callers -> Errors]
  /\ DOMAIN body = Callers
  /\ tried \in [Callers -> Seq(Errors)]
  /\ io \in [Replies -> {"none", "do", "send", "release", "done"}]
  /\ buf \in [Replies -> Buffers \cup {NoBuffer}]
  /\ outcome \in [Replies -> Errors]
  /\ DOMAIN ch = Replies
  /\ content \in [Buffers -> Replies \cup {NoReply}]
  /\ free \subseteq Buffers

(* A slot is fresh until its attempt starts, and no slot is beyond what    *)
(* the loop allows.                                                        *)
SlotsFresh ==
  \A c \in Callers :
    /\ call[c] \in {"sleep", "limiter", "select"} => attempt[c] < Attempts
    /\ \A k \in Slots :
         \/ k > attempt[c]
         \/ k = attempt[c] /\ call[c] \in {"start", "loop", "sleep", "limiter"}
         => io[<<c, k>>] = "none"

BuffersHeld == \A r \in Replies : InUse(r) => buf[r] \in Buffers \ free

BuffersApart ==
  \A q, r \in Replies : InUse(q) /\ InUse(r) /\ buf[q] = buf[r] => q = r

(* The object of an attempt holds its reply until the body is copied; what *)
(* is in the channel is the copy.                                          *)
RepliesKept ==
  \A r \in Replies :
    /\ io[r] = "send" /\ outcome[r] = "nil" => content[buf[r]] = r
    /\ ch[r] # <<>> => /\ io[r] \in {"release", "done"}
                       /\ outcome[r] = "nil" => Head(ch[r]) = Copy(r)

(* Without an error there is a body, unless the loop has no attempt.       *)
BodiesReturned ==
  \A c \in Callers :
    /\ tried[c] = <<>> => attempt[c] = 0
    /\ lastErr[c] = "nil" /\ tried[c] # <<>>
         => call[c] = "returned" /\ body[c] = Copy(<<c, attempt[c]>>)
    /\ lastErr[c] = "nil" /\ tried[c] = <<>> /\ call[c] = "returned"
         => Attempts <= 0

HttpInv ==
  HttpTypes /\ SlotsFresh /\ BuffersHeld /\ BuffersApart /\ RepliesKept /\ BodiesReturned
-----------------------------------------------------------------------------
(* Whatever wraps, the loop has no more attempts than there are slots.     *)
LEMMA AttemptsBounded == Attempts \in Int /\ Attempts <= MaxRetries + 1
<1> DEFINE half == Modulus \div 2
<1>1. \A n \in Int : /\ Signed(n) \in Int
                     /\ -half <= Signed(n) /\ Signed(n) < half
  BY HttpAssumption DEF Signed
<1>2. \A n \in Nat : Signed(n) <= n
  BY HttpAssumption DEF Signed
<1>3. \A n \in Int : -half <= n /\ n < 0 => Signed(n) = n
  BY HttpAssumption DEF Signed
<1> DEFINE s == Signed(MaxRetries)
<1>4. s \in Int /\ s <= MaxRetries /\ -half <= s
  BY <1>1, <1>2, HttpAssumption
<1> HIDE DEF s
<1>5. Signed(s + 1) \in Int /\ Signed(s + 1) <= s + 1
  <2>1. CASE s + 1 >= 0
    BY <1>1, <1>2, <1>4, <2>1
  <2>2. CASE s + 1 < 0
    BY <1>1, <1>3, <1>4, <2>2, HttpAssumption
  <2> QED BY <1>4, <2>1, <2>2
<1>6. Attempts = Signed(s + 1)
  BY DEF Attempts, s
<1> QED BY <1>4, <1>5, <1>6, HttpAssumption

(* The invariant holds before any call.                                    *)
LEMMA HttpInvInit == HttpInit => HttpInv
  BY HttpAssumption DEF HttpInit, HttpInv, HttpTypes, SlotsFresh, BuffersHeld, BuffersApart,
     RepliesKept, BodiesReturned, InUse, Points, Errors, Replies, Slots

(* A step of the call c alone, which moves only c's variables: nothing of  *)
(* the goroutines, and nothing of another call, is disturbed.              *)
LEMMA CallOnly ==
  ASSUME HttpInv, UNCHANGED ioVars, HttpTypes', SlotsFresh', BodiesReturned'
  PROVE  HttpInv'
  BY DEF HttpInv, BuffersHeld, BuffersApart, RepliesKept, InUse, ioVars

(* Enter, Loop, Wake and the two cancellations: control and error move.    *)
LEMMA ControlStep ==
  ASSUME HttpInv, NEW c \in Callers, NEW p \in Points,
         call' = [call EXCEPT ![c] = p],
         call[c] \in {"start", "loop", "sleep", "limiter"},
         p \in {"sleep", "limiter"} => attempt[c] < Attempts,
         p # "select",
         \/ lastErr' = lastErr /\ (p = "returned" => Attempts <= attempt[c])
         \/ /\ p = "returned"
            /\ \E err \in {"ctx", "limiter"} :
                 lastErr' = [lastErr EXCEPT ![c] = err],
         UNCHANGED <<attempt, body, tried>>, UNCHANGED ioVars
  PROVE  HttpInv'
<1>1. HttpTypes'
  BY DEF HttpInv, HttpTypes, Errors, ioVars
<1>2. SlotsFresh'
  BY DEF HttpInv, HttpTypes, SlotsFresh, ioVars, Points
<1>3. BodiesReturned'
  BY DEF HttpInv, HttpTypes, BodiesReturned
<1> QED BY <1>1, <1>2, <1>3, CallOnly

(* Every step of a call, of an attempt or of the context keeps it.         *)
LEMMA HttpInvNext == HttpInv /\ [HttpNext]_httpVars => HttpInv'
<1> SUFFICES ASSUME HttpInv, [HttpNext]_httpVars PROVE HttpInv'
  OBVIOUS
<1>0. HttpTypes /\ SlotsFresh /\ BuffersHeld /\ BuffersApart /\ RepliesKept /\ BodiesReturned
  BY DEF HttpInv
<1>1. CASE Cancel \/ UNCHANGED httpVars
  BY <1>0, <1>1 DEF Cancel, HttpInv, HttpTypes, SlotsFresh, BuffersHeld, BuffersApart,
     RepliesKept, BodiesReturned, InUse, httpVars, callVars, ioVars
<1>2. ASSUME NEW c \in Callers, Enter(c) PROVE HttpInv'
  BY <1>2, ControlStep DEF Enter, ReturnErr, GoTo, Points
<1>3. ASSUME NEW c \in Callers, Loop(c) PROVE HttpInv'
  <2>1. attempt[c] \in Nat
    BY <1>0, <1>3 DEF HttpTypes
  <2>2. /\ ~(attempt[c] >= Attempts) => attempt[c] < Attempts
        /\ attempt[c] >= Attempts => Attempts <= attempt[c]
    BY <2>1, AttemptsBounded
  <2> QED BY <1>3, <2>2, ControlStep DEF Loop, GoTo, Points
<1>4. ASSUME NEW c \in Callers, Wake(c) PROVE HttpInv'
  BY <1>0, <1>4, ControlStep DEF Wake, GoTo, Points, SlotsFresh
<1>5. ASSUME NEW c \in Callers, SleepCancelled(c) PROVE HttpInv'
  BY <1>5, ControlStep DEF SleepCancelled, ReturnErr, GoTo, Points
<1>6. ASSUME NEW c \in Callers, LimiterRefuses(c) PROVE HttpInv'
  <2>1. LimiterErrs \subseteq {"ctx", "limiter"}
    BY DEF LimiterErrs
  <2> QED BY <1>6, <2>1, ControlStep DEF LimiterRefuses, ReturnErr, GoTo, Points
<1>7. ASSUME NEW c \in Callers, NEW b \in Buffers, StartAttempt(c, b) PROVE HttpInv'
  <2> DEFINE r == <<c, attempt[c]>>
  <2>1. attempt[c] \in Slots /\ r \in Replies
    BY <1>0, <1>7, AttemptsBounded, HttpAssumption
       DEF StartAttempt, SlotsFresh, HttpTypes, Slots, Replies
  <2>2. io[r] = "none" /\ ch[r] = <<>>
    BY <1>0, <1>7, <2>1 DEF StartAttempt, SlotsFresh, RepliesKept
  <2>3. /\ b \in free /\ free' = free \ {b}
        /\ content' = [content EXCEPT ![b] = NoReply]
        /\ buf' = [buf EXCEPT ![r] = b]
        /\ io' = [io EXCEPT ![r] = "do"]
        /\ call[c] = "limiter" /\ call' = [call EXCEPT ![c] = "select"]
        /\ UNCHANGED <<attempt, lastErr, body, tried, outcome, ch>>
    BY <1>7 DEF StartAttempt, GoTo
  <2> HIDE DEF r
  <2>4. HttpTypes'
    BY <1>0, <2>1, <2>3 DEF HttpTypes, Points
  <2>5. SlotsFresh'
    <3> SUFFICES ASSUME NEW d \in Callers PROVE SlotsFresh!(d)'
      BY DEF SlotsFresh
    <3>1. CASE d = c
      BY <1>0, <2>1, <2>3, <3>1 DEF HttpTypes, SlotsFresh, r, Slots, Replies
    <3>2. CASE d # c
      BY <1>0, <2>1, <2>3, <3>2 DEF HttpTypes, SlotsFresh, r, Replies
    <3> QED BY <3>1, <3>2
  <2>6. BuffersHeld'
    BY <1>0, <2>1, <2>3 DEF HttpTypes, BuffersHeld, BuffersApart, InUse
  <2>7. BuffersApart'
    BY <1>0, <2>1, <2>3 DEF HttpTypes, BuffersHeld, BuffersApart, InUse
  <2>8. RepliesKept'
    BY <1>0, <2>1, <2>2, <2>3 DEF HttpTypes, RepliesKept, BuffersHeld, InUse
  <2>9. BodiesReturned'
    BY <1>0, <2>3 DEF HttpTypes, BodiesReturned
  <2> QED BY <2>4, <2>5, <2>6, <2>7, <2>8, <2>9 DEF HttpInv
<1>8. ASSUME NEW c \in Callers, Abort(c) PROVE HttpInv'
  <2>1. /\ call[c] = "select" /\ call' = [call EXCEPT ![c] = "returned"]
        /\ lastErr' = [lastErr EXCEPT ![c] = "ctx"]
        /\ UNCHANGED <<attempt, body, tried>> /\ UNCHANGED ioVars
    BY <1>8 DEF Abort, ReturnErr, GoTo, FreeAfterAbort, ioVars
  <2>2. HttpTypes'
    BY <1>0, <2>1 DEF HttpTypes, Points, Errors, ioVars
  <2>3. SlotsFresh'
    BY <1>0, <2>1 DEF HttpTypes, SlotsFresh, ioVars
  <2>4. BodiesReturned'
    BY <1>0, <2>1 DEF HttpTypes, BodiesReturned
  <2> QED BY <2>1, <2>2, <2>3, <2>4, CallOnly
<1>9. ASSUME NEW c \in Callers, TakeResult(c) PROVE HttpInv'
  <2> DEFINE r == <<c, attempt[c]>>
             err == outcome[r]
             done == err = "nil" \/ err \in NonRetryable
  <2>1. attempt[c] \in Slots /\ r \in Replies
    BY <1>0, <1>9, AttemptsBounded, HttpAssumption
       DEF TakeResult, SlotsFresh, HttpTypes, Slots, Replies
  <2>2. /\ call[c] = "select" /\ ch[r] # <<>>
        /\ call' = [call EXCEPT ![c] = IF done THEN "returned" ELSE "loop"]
        /\ attempt' = [attempt EXCEPT ![c] = IF done THEN attempt[c] ELSE attempt[c] + 1]
        /\ lastErr' = [lastErr EXCEPT ![c] = err]
        /\ body' = [body EXCEPT ![c] = IF err = "nil" THEN Head(ch[r]) ELSE body[c]]
        /\ tried' = [tried EXCEPT ![c] = Append(tried[c], err)]
        /\ UNCHANGED ioVars
    BY <1>9 DEF TakeResult, GoTo
  <2>3. err \in Errors /\ (err = "nil" => Head(ch[r]) = Copy(r))
    BY <1>0, <2>1, <2>2 DEF HttpTypes, RepliesKept
  <2>4. HttpTypes'
    BY <1>0, <2>2, <2>3 DEF HttpTypes, Points, ioVars
  <2>5. SlotsFresh'
    BY <1>0, <2>1, <2>2 DEF HttpTypes, SlotsFresh, Slots, ioVars
  <2>6. tried'[c] # <<>>
    BY <1>0, <2>2, <2>3 DEF HttpTypes
  <2>7. BodiesReturned'
    BY <1>0, <2>2, <2>3, <2>6 DEF HttpTypes, BodiesReturned
  <2> QED BY <2>2, <2>4, <2>5, <2>7, CallOnly
<1>10. ASSUME NEW r \in Replies, Do(r) PROVE HttpInv'
  <2>0. PICK status \in Statuses : \E err \in classifyResponse(status) :
          /\ outcome' = [outcome EXCEPT ![r] = err]
          /\ content' = [content EXCEPT ![buf[r]] = IF status = 0 THEN content[buf[r]] ELSE r]
    BY <1>10 DEF Do
  <2>1. PICK err \in classifyResponse(status) :
          /\ outcome' = [outcome EXCEPT ![r] = err]
          /\ content' = [content EXCEPT ![buf[r]] = IF status = 0 THEN content[buf[r]] ELSE r]
    BY <2>0
  <2>2. /\ io[r] = "do" /\ io' = [io EXCEPT ![r] = "send"]
        /\ UNCHANGED <<buf, ch, free>> /\ UNCHANGED callVars
    BY <1>10 DEF Do
  <2>3. /\ err \in Errors
        /\ err = "nil" => status # 0
    BY DEF classifyResponse, Errors
  <2>4. buf[r] \in Buffers
    BY <1>0, <2>2 DEF BuffersHeld, InUse
  <2>5. HttpTypes'
    BY <1>0, <2>1, <2>2, <2>3, <2>4 DEF HttpTypes, callVars
  <2>6. RepliesKept'
    <3> SUFFICES ASSUME NEW q \in Replies PROVE RepliesKept!(q)'
      BY DEF RepliesKept
    <3>1. CASE q = r
      BY <1>0, <2>1, <2>2, <2>3, <2>4, <3>1 DEF HttpTypes, RepliesKept
    <3>2. CASE q # r
      <4>1. io[q] = "send" => buf[q] # buf[r]
        BY <1>0, <2>2, <3>2 DEF BuffersApart, InUse
      <4> QED BY <1>0, <2>1, <2>2, <3>2, <4>1 DEF HttpTypes, RepliesKept, BuffersHeld, InUse
    <3> QED BY <3>1, <3>2
  <2>7. (SlotsFresh /\ BuffersHeld /\ BuffersApart /\ BodiesReturned)'
    BY <1>0, <2>2 DEF HttpTypes, SlotsFresh, BuffersHeld, BuffersApart, BodiesReturned,
       InUse, callVars, Replies
  <2> QED BY <2>5, <2>6, <2>7 DEF HttpInv
<1>11. ASSUME NEW r \in Replies, SendResult(r) PROVE HttpInv'
  <2>1. /\ io[r] = "send" /\ io' = [io EXCEPT ![r] = "release"]
        /\ ch' = [ch EXCEPT ![r] = <<IF outcome[r] = "nil" THEN Copy(content[buf[r]]) ELSE NoBody>>]
        /\ UNCHANGED <<buf, outcome, content, free>> /\ UNCHANGED callVars
    BY <1>11 DEF SendResult, Sent, BodyOf
  <2>2. HttpTypes'
    BY <1>0, <2>1 DEF HttpTypes, callVars
  <2>3. RepliesKept'
    BY <1>0, <2>1 DEF HttpTypes, RepliesKept
  <2>4. (SlotsFresh /\ BuffersHeld /\ BuffersApart /\ BodiesReturned)'
    BY <1>0, <2>1 DEF HttpTypes, SlotsFresh, BuffersHeld, BuffersApart, BodiesReturned,
       InUse, callVars, Replies
  <2> QED BY <2>2, <2>3, <2>4 DEF HttpInv
<1>12. ASSUME NEW r \in Replies, Release(r) PROVE HttpInv'
  <2>1. /\ io[r] = "release" /\ io' = [io EXCEPT ![r] = "done"]
        /\ free' = free \cup {buf[r]}
        /\ UNCHANGED <<buf, outcome, content, ch>> /\ UNCHANGED callVars
    BY <1>12 DEF Release
  <2>2. buf[r] \in Buffers
    BY <1>0, <2>1 DEF BuffersHeld, InUse
  <2>3. HttpTypes'
    BY <1>0, <2>1, <2>2 DEF HttpTypes, callVars
  <2>4. BuffersHeld'
    BY <1>0, <2>1 DEF HttpTypes, BuffersHeld, BuffersApart, InUse
  <2>5. (SlotsFresh /\ BuffersApart /\ RepliesKept /\ BodiesReturned)'
    BY <1>0, <2>1 DEF HttpTypes, SlotsFresh, BuffersApart, RepliesKept, BodiesReturned,
       InUse, callVars, Replies
  <2> QED BY <2>3, <2>4, <2>5 DEF HttpInv
<1> QED
  BY <1>1, <1>2, <1>3, <1>4, <1>5, <1>6, <1>7, <1>8, <1>9, <1>10, <1>11, <1>12
     DEF HttpNext, CallStep, AllOver

(* The inductive invariant holds in every reachable state.                 *)
LEMMA HttpInvariance == HttpSpec => []HttpInv
  BY HttpInvInit, HttpInvNext, PTL DEF HttpSpec
-----------------------------------------------------------------------------
(* No object of an attempt in progress is in the pool or with another      *)
(* attempt, also after the call that started it was cancelled              *)
(* (client.go:195-227).                                                    *)
THEOREM BuffersSafe == HttpSpec => []BuffersExclusive
<1>1. HttpInv => BuffersExclusive
  BY DEF HttpInv, BuffersHeld, BuffersApart, BuffersExclusive
<1> QED BY <1>1, HttpInvariance, PTL

(* A call that returns no error returns, and keeps, the reply to its own   *)
(* last attempt (client.go:77, 237-260).                                   *)
THEOREM BodiesSafe == HttpSpec => []BodyIsOwnReply
<1>1. AttemptsFit => Attempts = MaxRetries + 1
  <2>1. AttemptsFit => Signed(MaxRetries) = MaxRetries
    BY HttpAssumption DEF AttemptsFit, Signed
  <2>2. AttemptsFit => Signed(MaxRetries + 1) = MaxRetries + 1
    BY HttpAssumption DEF AttemptsFit, Signed
  <2> QED BY <2>1, <2>2 DEF Attempts
<1>2. HttpInv => BodyIsOwnReply
  <2> SUFFICES ASSUME HttpInv, AttemptsFit,
                      NEW c \in Callers, call[c] = "returned", lastErr[c] = "nil"
               PROVE  Reading(body[c]) = <<c, attempt[c]>>
    BY DEF BodyIsOwnReply
  <2>1. tried[c] # <<>>
    <3>1. ~(Attempts <= 0)
      BY <1>1, HttpAssumption
    <3> QED BY <3>1 DEF HttpInv, BodiesReturned
  <2>2. body[c] = [copyOf |-> <<c, attempt[c]>>]
    BY <2>1 DEF HttpInv, BodiesReturned, Copy
  <2> QED BY <2>2 DEF Reading
<1> QED BY <1>2, HttpInvariance, PTL
-----------------------------------------------------------------------------
(* Towards Call: what a call has done so far is what its variables say.    *)
Limit == IF Attempts > 0 THEN Attempts ELSE 0

Answers == A!Retryable \cup NonRetryable \cup {"nil"}

Accounted(c) ==
  /\ body[c] = Copy(body[c].copyOf)
  /\ attempt[c] <= Limit
  /\ call[c] # "returned" =>
       /\ Len(tried[c]) = attempt[c]
       /\ lastErr[c] = IF tried[c] = <<>> THEN "nil" ELSE tried[c][Len(tried[c])]

OutcomesKnown ==
  \A r \in Replies : io[r] \in {"send", "release", "done"} => outcome[r] \in Answers

CallInv ==
  /\ \A c \in Callers : Accounted(c)
  /\ OutcomesKnown

(* It holds before any call.                                               *)
LEMMA CallInvInit == HttpInit => CallInv
<1>1. Limit \in Nat
  BY AttemptsBounded DEF Limit
<1> QED BY <1>1 DEF HttpInit, CallInv, OutcomesKnown, Accounted, Copy, NoBody, NoReply

(* A step that leaves a call alone leaves it accounted for.                *)
LEMMA AccountedOthers ==
  ASSUME NEW c \in Callers, Accounted(c), call'[c] = call[c], attempt'[c] = attempt[c],
         lastErr'[c] = lastErr[c], body'[c] = body[c], tried'[c] = tried[c]
  PROVE  Accounted(c)'
  BY DEF Accounted, Limit, Attempts

(* What a caller of MakeRequest sees of its call changes with the call's   *)
(* own variables only, whatever is read into the pooled objects.           *)
LEMMA SeenOthers ==
  ASSUME CallInv, NEW c \in Callers, call'[c] = call[c], lastErr'[c] = lastErr[c],
         body'[c] = body[c]
  PROVE  Results'[c] = Results[c] /\ Bodies'[c] = Bodies[c]
<1>1. body[c] = Copy(body[c].copyOf)
  BY DEF CallInv, Accounted
<1>2. Reading(body[c])' = body[c].copyOf /\ Reading(body[c]) = body[c].copyOf
  BY <1>1 DEF Reading, Copy
<1> QED BY <1>2 DEF Results, Bodies

(* A call that only moves on shows nothing.                                *)
LEMMA MovesOn ==
  ASSUME HttpInv, CallInv, NEW c \in Callers, NEW p, p # "returned",
         call[c] # "returned", call' = [call EXCEPT ![c] = p],
         UNCHANGED <<attempt, lastErr, body, tried>>
  PROVE  /\ \A d \in Callers : Accounted(d)'
         /\ Results' = Results /\ Bodies' = Bodies
<1>1. call \in [Callers -> Points]
  BY DEF HttpInv, HttpTypes
<1>2. ASSUME NEW d \in Callers
      PROVE  Accounted(d)' /\ Results'[d] = Results[d] /\ Bodies'[d] = Bodies[d]
  <2>1. CASE d # c
    BY <1>1, <2>1, AccountedOthers, SeenOthers DEF CallInv
  <2>2. CASE d = c
    <3>1. body[c] = Copy(body[c].copyOf)
      BY DEF CallInv, Accounted
    <3>2. Reading(body[c])' = Reading(body[c])
      BY <3>1 DEF Reading, Copy
    <3>3. call'[c] = p
      BY <1>1
    <3> QED BY <2>2, <3>2, <3>3 DEF CallInv, Accounted, Limit, Attempts, Results, Bodies
  <2> QED BY <2>1, <2>2
<1> QED BY <1>2 DEF Results, Bodies

(* A call that returns shows the error it returns, and nothing else.       *)
LEMMA MovesOut ==
  ASSUME HttpInv, CallInv, NEW c \in Callers, NEW err,
         call[c] # "returned", call' = [call EXCEPT ![c] = "returned"],
         lastErr' = [lastErr EXCEPT ![c] = err],
         UNCHANGED <<attempt, body, tried>>
  PROVE  /\ \A d \in Callers : Accounted(d)'
         /\ Results[c] = "none"
         /\ Results' = [Results EXCEPT ![c] = err] /\ Bodies' = Bodies
<1>1. call \in [Callers -> Points] /\ lastErr \in [Callers -> Errors]
  BY DEF HttpInv, HttpTypes
<1>2. ASSUME NEW d \in Callers, d # c
      PROVE  Accounted(d)' /\ Results'[d] = Results[d] /\ Bodies'[d] = Bodies[d]
  BY <1>1, <1>2, AccountedOthers, SeenOthers DEF CallInv
<1>3. body[c] = Copy(body[c].copyOf)
  BY DEF CallInv, Accounted
<1>4. Reading(body[c])' = Reading(body[c])
  BY <1>3 DEF Reading, Copy
<1>5. Accounted(c)' /\ Results'[c] = err /\ Results[c] = "none" /\ Bodies'[c] = Bodies[c]
  BY <1>1, <1>4 DEF CallInv, Accounted, Limit, Attempts, Results, Bodies
<1>6. \A d \in Callers : Accounted(d)'
  BY <1>2, <1>5
<1>7. Bodies' = Bodies
  BY <1>2, <1>5 DEF Bodies
<1>8. Results' = [Results EXCEPT ![c] = err]
  BY <1>2, <1>5 DEF Results
<1> QED BY <1>5, <1>6, <1>7, <1>8

Shown == <<tried, Results, Bodies, ctxDone>>

CallStepOK == CallInv' /\ [A!Next]_Shown

(* The context ends a call that waits or looks at it.                      *)
LEMMA StopStep ==
  ASSUME HttpInv, CallInv, NEW c \in Callers, ctxDone,
         call[c] # "returned", call' = [call EXCEPT ![c] = "returned"],
         lastErr' = [lastErr EXCEPT ![c] = "ctx"],
         UNCHANGED <<ctxDone, attempt, body, tried, io, outcome>>
  PROVE  CallStepOK
<1>1. CallInv'
  BY MovesOut DEF CallInv, OutcomesKnown, Answers
<1>2. A!Stop(c)
  BY MovesOut DEF A!Stop, A!Returns
<1> QED BY <1>1, <1>2 DEF CallStepOK, A!Next

(* A step of a goroutine, and the context's end, show a caller nothing new *)
(* but the end.                                                            *)
LEMMA UnseenStep ==
  ASSUME HttpInv, CallInv, UNCHANGED callVars, OutcomesKnown',
         ctxDone' = ctxDone \/ ctxDone' = TRUE
  PROVE  CallStepOK
<1>1. CallInv'
  BY AccountedOthers DEF CallInv, callVars
<1>2. Results' = Results /\ Bodies' = Bodies
  BY SeenOthers DEF callVars, Results, Bodies
<1> QED BY <1>1, <1>2 DEF CallStepOK, Shown, callVars, A!Next, A!Cancel

(* TakeResult is an attempt, and the last one if it succeeds or must not   *)
(* be repeated.                                                            *)
LEMMA TakeStep ==
  ASSUME HttpInv, CallInv, NEW c \in Callers, TakeResult(c)
  PROVE  CallStepOK
<1> DEFINE r == <<c, attempt[c]>>
           err == outcome[r]
           done == err = "nil" \/ err \in NonRetryable
<1>1. attempt[c] \in Slots /\ r \in Replies /\ attempt[c] < Attempts /\ attempt[c] \in Nat
  BY AttemptsBounded, HttpAssumption
     DEF HttpInv, TakeResult, SlotsFresh, HttpTypes, Slots, Replies
<1>2. /\ call[c] = "select" /\ ch[r] # <<>>
      /\ call' = [call EXCEPT ![c] = IF done THEN "returned" ELSE "loop"]
      /\ attempt' = [attempt EXCEPT ![c] = IF done THEN attempt[c] ELSE attempt[c] + 1]
      /\ lastErr' = [lastErr EXCEPT ![c] = err]
      /\ body' = [body EXCEPT ![c] = IF err = "nil" THEN Head(ch[r]) ELSE body[c]]
      /\ tried' = [tried EXCEPT ![c] = Append(tried[c], err)]
      /\ UNCHANGED ioVars /\ UNCHANGED ctxDone
  BY DEF TakeResult, GoTo
<1>3. err \in Answers /\ (err = "nil" => Head(ch[r]) = Copy(r))
  BY <1>1, <1>2 DEF HttpInv, RepliesKept, CallInv, OutcomesKnown
<1> HIDE DEF err, r
<1>4. /\ call \in [Callers -> Points] /\ attempt \in [Callers -> Nat]
      /\ lastErr \in [Callers -> Errors] /\ DOMAIN body = Callers
      /\ tried \in [Callers -> Seq(Errors)]
  BY DEF HttpInv, HttpTypes
<1>5. Accounted(c)
  BY DEF CallInv
<1>6. err \in Errors
  BY <1>3 DEF Answers, A!Retryable, NonRetryable, Errors
<1>7. ASSUME NEW d \in Callers, d # c
      PROVE  Accounted(d)' /\ Results'[d] = Results[d] /\ Bodies'[d] = Bodies[d]
  <2>1. /\ call'[d] = call[d] /\ attempt'[d] = attempt[d] /\ lastErr'[d] = lastErr[d]
        /\ body'[d] = body[d] /\ tried'[d] = tried[d]
    BY <1>2, <1>4, <1>7
  <2> QED BY <2>1, AccountedOthers, SeenOthers DEF CallInv
<1>8. /\ call'[c] = IF done THEN "returned" ELSE "loop"
      /\ attempt'[c] = IF done THEN attempt[c] ELSE attempt[c] + 1
      /\ lastErr'[c] = err
      /\ body'[c] = IF err = "nil" THEN Copy(r) ELSE body[c]
      /\ tried'[c] = Append(tried[c], err)
  BY <1>2, <1>3, <1>4
<1>9. /\ tried'[c] # <<>> /\ Len(tried'[c]) = Len(tried[c]) + 1
      /\ tried'[c][Len(tried'[c])] = err
  <2>1. \A t \in Seq(Errors), e \in Errors :
          LET u == Append(t, e) IN u # <<>> /\ Len(u) = Len(t) + 1 /\ u[Len(u)] = e
    OBVIOUS
  <2>2. tried[c] \in Seq(Errors)
    BY <1>4
  <2> QED BY <1>6, <1>8, <2>1, <2>2
<1>10. /\ Attempts \in Int /\ Limit = Attempts /\ Limit' = Limit
       /\ attempt[c] + 1 <= Limit
  BY <1>1, AttemptsBounded DEF Limit, Attempts
<1>11. Len(tried[c]) = attempt[c] /\ body[c] = Copy(body[c].copyOf)
  BY <1>2, <1>5 DEF Accounted
<1>12. body'[c] = Copy(body'[c].copyOf)
  BY <1>8, <1>11 DEF Copy
<1>13. attempt'[c] <= Limit'
  BY <1>1, <1>8, <1>10
<1>14. Accounted(c)'
  BY <1>1, <1>8, <1>9, <1>11, <1>12, <1>13 DEF Accounted
<1>15. CallInv'
  BY <1>2, <1>7, <1>14 DEF CallInv, OutcomesKnown, ioVars, Answers
<1>16. Results[c] = "none" /\ Results'[c] = IF done THEN err ELSE "none"
  BY <1>2, <1>8 DEF Results
<1>17. Results' = [Results EXCEPT ![c] = IF done THEN err ELSE "none"]
  BY <1>7, <1>16 DEF Results
<1>18. Bodies'[c] = IF err = "nil" THEN <<c, attempt[c]>> ELSE Bodies[c]
  BY <1>8, <1>11 DEF Bodies, Reading, Copy, r
<1>19. Bodies' = [Bodies EXCEPT ![c] = IF err = "nil" THEN <<c, attempt[c]>> ELSE @]
  BY <1>7, <1>18 DEF Bodies
<1>20. A!MayTry(c)
  BY <1>1, <1>10, <1>11, <1>16 DEF A!MayTry, Limit
<1>21. CASE err = "nil"
  BY <1>2, <1>11, <1>16, <1>17, <1>19, <1>20, <1>21, <1>15
     DEF A!Succeed, A!Returns, A!Next, CallStepOK
<1>22. CASE err \in NonRetryable
  <2>1. err # "nil"
    BY <1>22 DEF NonRetryable
  <2>2. Bodies' = Bodies
    BY <1>19, <2>1 DEF Bodies
  <2>3. A!Fail(c, err)
    BY <1>2, <1>16, <1>17, <1>20, <1>22, <2>2 DEF A!Fail, A!Returns
  <2> QED BY <1>15, <1>22, <2>3 DEF A!Next, CallStepOK, NonRetryable
<1>23. CASE err \in A!Retryable
  <2>1. err # "nil" /\ ~done
    BY <1>23 DEF NonRetryable, A!Retryable
  <2>2. Bodies' = Bodies /\ Results' = Results
    BY <1>16, <1>17, <1>19, <2>1 DEF Bodies, Results
  <2>3. A!Try(c, err)
    BY <1>2, <1>20, <2>2 DEF A!Try
  <2> QED BY <1>15, <1>23, <2>3 DEF A!Next, CallStepOK
<1> QED BY <1>3, <1>21, <1>22, <1>23 DEF Answers

(* Every step is one of Call's, or is not seen by a caller.                *)
LEMMA CallNext == HttpInv /\ CallInv /\ [HttpNext]_httpVars => CallStepOK
<1> SUFFICES ASSUME HttpInv, CallInv, [HttpNext]_httpVars PROVE CallStepOK
  OBVIOUS
<1>1. CASE Cancel \/ UNCHANGED httpVars
  BY <1>1, UnseenStep DEF Cancel, httpVars, ioVars, CallInv, OutcomesKnown, Answers
<1>2. ASSUME NEW c \in Callers, NEW p, p # "returned",
             call[c] # "returned", call' = [call EXCEPT ![c] = p],
             UNCHANGED <<ctxDone, attempt, lastErr, body, tried>>, OutcomesKnown'
      PROVE  CallStepOK
  BY <1>2, MovesOn DEF CallInv, CallStepOK, Shown
<1>3. UNCHANGED <<io, outcome>> => OutcomesKnown'
  BY DEF CallInv, OutcomesKnown, Answers
<1>4. ASSUME NEW c \in Callers, Enter(c) PROVE CallStepOK
  BY <1>2, <1>3, <1>4, StopStep DEF Enter, ReturnErr, GoTo, ioVars
<1>5. ASSUME NEW c \in Callers, Loop(c) PROVE CallStepOK
  <2>1. CASE attempt[c] >= Attempts
    <3>1. /\ call[c] = "loop" /\ call' = [call EXCEPT ![c] = "returned"]
          /\ UNCHANGED <<ctxDone, attempt, lastErr, body, tried, io, outcome>>
      BY <1>5, <2>1 DEF Loop, GoTo, ioVars
    <3>2. lastErr' = [lastErr EXCEPT ![c] = lastErr[c]]
      BY <3>1 DEF HttpInv, HttpTypes
    <3>3. /\ \A d \in Callers : Accounted(d)'
          /\ Results[c] = "none"
          /\ Results' = [Results EXCEPT ![c] = lastErr[c]] /\ Bodies' = Bodies
      BY <3>1, <3>2, MovesOut
    <3>4. Len(tried[c]) = Limit
      <4>1. attempt[c] \in Nat /\ attempt[c] <= Limit /\ Len(tried[c]) = attempt[c]
        BY <3>1 DEF HttpInv, HttpTypes, CallInv, Accounted
      <4> QED BY <2>1, <4>1, AttemptsBounded DEF Limit
    <3>5. A!GiveUp(c)
      BY <3>1, <3>3, <3>4 DEF A!GiveUp, A!Returns, CallInv, Accounted, Limit
    <3> QED BY <1>3, <3>1, <3>3, <3>5 DEF CallStepOK, CallInv, A!Next
  <2>2. CASE ~(attempt[c] >= Attempts)
    BY <1>2, <1>3, <1>5, <2>2 DEF Loop, GoTo, ioVars
  <2> QED BY <2>1, <2>2
<1>6. ASSUME NEW c \in Callers, Wake(c) PROVE CallStepOK
  BY <1>2, <1>3, <1>6 DEF Wake, GoTo, ioVars
<1>7. ASSUME NEW c \in Callers, SleepCancelled(c) PROVE CallStepOK
  BY <1>7, StopStep DEF SleepCancelled, ReturnErr, GoTo, ioVars
<1>8. ASSUME NEW c \in Callers, LimiterRefuses(c) PROVE CallStepOK
  <2>1. CASE ctxDone
    BY <1>8, <2>1, StopStep DEF LimiterRefuses, LimiterErrs, ReturnErr, GoTo, ioVars
  <2>2. CASE ~ctxDone
    <3>1. /\ call[c] # "returned" /\ call' = [call EXCEPT ![c] = "returned"]
          /\ lastErr' = [lastErr EXCEPT ![c] = "limiter"]
          /\ UNCHANGED <<ctxDone, attempt, body, tried, io, outcome>>
          /\ HasLimiter /\ HasDeadline
      BY <1>8, <2>2 DEF LimiterRefuses, LimiterErrs, ReturnErr, GoTo, ioVars
    <3>2. /\ \A d \in Callers : Accounted(d)'
          /\ Results[c] = "none"
          /\ Results' = [Results EXCEPT ![c] = "limiter"] /\ Bodies' = Bodies
      BY <3>1, MovesOut
    <3> QED BY <1>3, <2>2, <3>1, <3>2 DEF CallStepOK, CallInv, A!Next, A!Refuse, A!Returns
  <2> QED BY <2>1, <2>2
<1>9. ASSUME NEW c \in Callers, NEW b \in Buffers, StartAttempt(c, b) PROVE CallStepOK
  <2>1. OutcomesKnown'
    BY <1>9 DEF StartAttempt, HttpInv, HttpTypes, CallInv, OutcomesKnown, Answers
  <2> QED BY <1>2, <1>9, <2>1 DEF StartAttempt, GoTo
<1>10. ASSUME NEW c \in Callers, Abort(c) PROVE CallStepOK
  BY <1>10, StopStep DEF Abort, SelectsCtx, ReturnErr, GoTo
<1>11. ASSUME NEW c \in Callers, TakeResult(c) PROVE CallStepOK
  BY <1>11, TakeStep
<1>12. ASSUME NEW r \in Replies, Do(r) PROVE CallStepOK
  <2>1. PICK status \in Statuses : \E err \in classifyResponse(status) :
          outcome' = [outcome EXCEPT ![r] = err]
    BY <1>12 DEF Do
  <2>2. PICK err \in classifyResponse(status) : outcome' = [outcome EXCEPT ![r] = err]
    BY <2>1
  <2>3. err \in Answers
    BY DEF classifyResponse, Answers, A!Retryable, NonRetryable
  <2>4. OutcomesKnown'
    BY <1>12, <2>2, <2>3
       DEF Do, HttpInv, HttpTypes, CallInv, OutcomesKnown, Answers
  <2> QED BY <1>12, <2>4, UnseenStep DEF Do
<1>13. ASSUME NEW r \in Replies, SendResult(r) \/ Release(r) PROVE CallStepOK
  <2>1. OutcomesKnown'
    BY <1>13 DEF SendResult, Release, HttpInv, HttpTypes, CallInv, OutcomesKnown, Answers
  <2> QED BY <1>13, <2>1, UnseenStep DEF SendResult, Release
<1> QED
  BY <1>1, <1>4, <1>5, <1>6, <1>7, <1>8, <1>9, <1>10, <1>11, <1>12, <1>13
     DEF HttpNext, CallStep, AllOver

(* What is known of the calls holds throughout.                            *)
LEMMA CallInvariance == HttpSpec => []CallInv
  BY HttpInvariance, CallInvInit, CallNext, PTL DEF HttpSpec, CallStepOK

(* MakeRequest implements Call: whatever its goroutines, pooled objects    *)
(* and wrapped counters do, a caller sees bounded attempts, none after one *)
(* that must not be repeated, and one answer that stays as it is           *)
(* (client.go:60-106).                                                     *)
THEOREM CallsAreAnswered == HttpSpec => CallsAnswer
<1>1. HttpInit => A!Init
  BY DEF HttpInit, A!Init, Results, Bodies, Reading, Copy, NoBody, NoReply, A!NoReply
<1>2. HttpInv /\ CallInv /\ [HttpNext]_httpVars => [A!Next]_<<tried, Results, Bodies, ctxDone>>
  BY CallNext DEF CallStepOK, Shown
<1> QED BY <1>1, <1>2, HttpInvariance, CallInvariance, PTL DEF HttpSpec, CallsAnswer, A!Spec

(* The variables have their types whatever wraps, an attempt's channel     *)
(* never needs more room than it has, and no call starts more attempts     *)
(* than it was given (client.go:60-106, 197).                              *)
THEOREM HttpTypesCorrect == HttpSpec => []HttpTypeOK
<1> DEFINE ChannelsFit == ctxDone \in BOOLEAN /\ \A r \in Replies : Len(ch[r]) <= 1
<1>1. HttpInit => ChannelsFit
  <2>1. Len(<<>>) <= 1
    OBVIOUS
  <2> QED BY <2>1 DEF HttpInit
<1>2. HttpInv /\ ChannelsFit /\ [HttpNext]_httpVars => ChannelsFit'
  <2> SUFFICES ASSUME HttpInv, ChannelsFit, [HttpNext]_httpVars PROVE ChannelsFit'
    OBVIOUS
  <2>1. CASE Cancel
    BY <2>1 DEF Cancel, ioVars
  <2>2. CASE \E c \in Callers : CallStep(c)
    BY <2>2 DEF CallStep, Enter, Loop, Wake, SleepCancelled, LimiterRefuses, StartAttempt, Abort,
       TakeResult, ioVars
  <2>3. ASSUME NEW q \in Replies, Do(q) \/ SendResult(q) \/ Release(q) PROVE ChannelsFit'
    <3>1. \/ ch' = ch
          \/ ch' = [ch EXCEPT ![q] = <<IF outcome[q] = "nil" THEN BodyOf(q) ELSE NoBody>>]
      BY <2>3 DEF Do, SendResult, Sent, Release
    <3>2. DOMAIN ch = Replies /\ ctxDone' = ctxDone
      BY <2>3 DEF HttpInv, HttpTypes, Do, SendResult, Release
    <3>3. \A x : Len(<<x>>) <= 1
      OBVIOUS
    <3> QED BY <3>1, <3>2, <3>3
  <2>4. CASE UNCHANGED httpVars
    BY <2>4 DEF httpVars, ioVars
  <2> QED BY <2>1, <2>2, <2>3, <2>4 DEF HttpNext, AllOver
<1>3. HttpInv /\ CallInv /\ ChannelsFit => HttpTypeOK
  <2>1. Attempts \in Int /\ Attempts <= MaxRetries + 1 /\ MaxRetries \in Nat
    BY AttemptsBounded, HttpAssumption
  <2>2. Limit \in Nat /\ Limit <= MaxRetries + 1
    BY <2>1 DEF Limit
  <2> SUFFICES ASSUME HttpInv, CallInv, ChannelsFit PROVE HttpTypeOK
    OBVIOUS
  <2>3. \A c \in Callers : attempt[c] \in 0..MaxRetries + 1
    BY <2>1, <2>2 DEF HttpInv, HttpTypes, CallInv, Accounted
  <2> QED BY <2>3 DEF HttpInv, HttpTypes, HttpTypeOK, Points
<1> HIDE DEF ChannelsFit
<1> QED BY <1>1, <1>2, <1>3, HttpInvariance, CallInvariance, PTL DEF HttpSpec
=============================================================================
