----------------------------- MODULE ClientProofs -----------------------------
(***************************************************************************)
(* Theorems about Client, for any options, calls and payloads: the         *)
(* configuration a client ends up with, and what its requests carry.       *)
(***************************************************************************)
EXTENDS Client, ValuesProofs

-----------------------------------------------------------------------------
(* The inductive invariant.                                                 *)

TheSource == [option |-> "ts", reason |-> "must not be nil"]
TheToken == [option |-> "token", reason |-> "must not be empty"]
TheOption(i) == [option |-> options[i].name, reason |-> Fault(options[i])]

\* What the client has kept while its options are still being given.
KeptSoFar ==
    IF op.credential = "nil" THEN client.err = TheSource
    ELSE \/ \E i \in DOMAIN options : FirstFailed(i) /\ client.err = TheOption(i)
         \/ NoneFailed /\ client.err = NoError

\* The last option that set a setting, and did not fail.
LastGiven(s, i) == /\ i \in DOMAIN options /\ options[i].name = s /\ ~Failed(i)
                   /\ \A j \in DOMAIN options : options[j].name = s /\ ~Failed(j) => j <= i

SettingsKept ==
    \A s \in Settings :
        \/ /\ \A i \in DOMAIN options : ~(options[i].name = s /\ ~Failed(i))
           /\ client.settings[s] = Default
        \/ \E i \in DOMAIN options : LastGiven(s, i) /\ client.settings[s] = options[i].arg

Shapes == /\ options \in Seq(Options)
          /\ stage \in {"new", "options", "ready"}
          /\ client = [settings |-> client.settings, err |-> client.err]
          /\ DOMAIN client.settings = Settings

Built == /\ stage = "new" => options = <<>> /\ client.err = NoError
         /\ stage = "options" => KeptSoFar
         /\ FirstFailureKept
         /\ stage = "ready" => core = client.settings
         /\ stage # "ready" => call = NoCall

\* The verdict of a call is that of its client's checks, and a request left a
\* client without an error, is that of its call, and was refused by none.
VerdictOfCall == IsMethod => /\ stage = "ready"
                             /\ call \in Calls \cup Probes
                             /\ verdict = Refusal(call)
RequestOfCall == wire # NoRequest =>
                     /\ stage = "ready" /\ client.err.reason = Ok
                     /\ IsMethod => Refusal(call) = Ok /\ wire = Request(call)

ClientInvariant == Shapes /\ SettingsKept /\ Built /\ VerdictOfCall /\ RequestOfCall

-----------------------------------------------------------------------------
(* The first error of several checks.                                       *)

\* errFirst is Ok only when every check is, and otherwise the first that is not.
LEMMA FirstError ==
    ASSUME NEW n \in Nat, NEW errs, DOMAIN errs = 1..n
    PROVE  /\ errFirst(errs) = Ok <=> \A i \in 1..n : errs[i] = Ok
           /\ errFirst(errs) # Ok => \E i \in 1..n : errFirst(errs) = errs[i]
           /\ \A i \in 1..n : errs[i] # Ok /\ (\A j \in 1..(i - 1) : errs[j] = Ok)
                               => errFirst(errs) = errs[i]
<1>1. CASE \A i \in 1..n : errs[i] = Ok
  BY <1>1 DEF errFirst
<1>2. CASE ~\A i \in 1..n : errs[i] = Ok
  <2>1. PICK T : T = {i \in 1..n : errs[i] # Ok}
    OBVIOUS
  <2>2. PICK least \in T : \A i \in T : least <= i
    <3>1. T \subseteq Nat /\ T # {}
      BY <1>2, <2>1
    <3> QED
      BY <3>1, Least
  <2>3. \A j \in 1..(least - 1) : errs[j] = Ok
    BY <2>1, <2>2
  <2>4. PICK k : k = CHOOSE i \in DOMAIN errs : errs[i] # Ok /\ \A j \in 1..(i - 1) : errs[j] = Ok
    OBVIOUS
  <2>5. k \in 1..n /\ errs[k] # Ok
    BY <2>1, <2>2, <2>3, <2>4
  <2>6. errFirst(errs) = errs[k]
    BY <1>2, <2>4 DEF errFirst
  <2>7. ASSUME NEW i \in 1..n, errs[i] # Ok, \A j \in 1..(i - 1) : errs[j] = Ok
        PROVE  errFirst(errs) = errs[i]
    <3>1. \A j \in 1..(k - 1) : errs[j] = Ok
      BY <2>1, <2>2, <2>3, <2>4
    <3>2. ~(k < i) /\ ~(i < k)
      BY <2>5, <2>7, <3>1
    <3>3. k = i
      BY <2>5, <2>7, <3>2
    <3> QED
      BY <2>6, <3>3
  <2> QED
    BY <1>2, <2>5, <2>6, <2>7
<1> QED
  BY <1>1, <1>2

LEMMA FirstOfTwo ==
    ASSUME NEW a, NEW b
    PROVE  /\ errFirst(<<a, b>>) = Ok <=> a = Ok /\ b = Ok
           /\ errFirst(<<a, b>>) \in {Ok, a, b}
<1>1. PICK errs : errs = <<a, b>>
  OBVIOUS
<1>2. DOMAIN errs = 1..2 /\ errs[1] = a /\ errs[2] = b /\ 2 \in Nat
  BY <1>1
<1>3. /\ errFirst(errs) = Ok <=> \A i \in 1..2 : errs[i] = Ok
      /\ errFirst(errs) # Ok => \E i \in 1..2 : errFirst(errs) = errs[i]
  BY <1>2, FirstError
<1>4. \A i : i \in 1..2 <=> i = 1 \/ i = 2
  OBVIOUS
<1> QED
  BY <1>1, <1>2, <1>3, <1>4

LEMMA FirstOfThree ==
    ASSUME NEW a, NEW b, NEW c
    PROVE  /\ errFirst(<<a, b, c>>) = Ok <=> a = Ok /\ b = Ok /\ c = Ok
           /\ errFirst(<<a, b, c>>) \in {Ok, a, b, c}
           /\ a # Ok => errFirst(<<a, b, c>>) = a
<1>1. PICK errs : errs = <<a, b, c>>
  OBVIOUS
<1>2. DOMAIN errs = 1..3 /\ errs[1] = a /\ errs[2] = b /\ errs[3] = c /\ 3 \in Nat
  BY <1>1
<1>3. /\ errFirst(errs) = Ok <=> \A i \in 1..3 : errs[i] = Ok
      /\ errFirst(errs) # Ok => \E i \in 1..3 : errFirst(errs) = errs[i]
  BY <1>2, FirstError
<1>4. \A i : i \in 1..3 <=> i = 1 \/ i = 2 \/ i = 3
  OBVIOUS
<1>5. ASSUME a # Ok PROVE errFirst(errs) = a
  <2>1. 1 \in 1..3 /\ errs[1] # Ok /\ \A j \in 1..(1 - 1) : errs[j] = Ok
    BY <1>2, <1>5
  <2>2. errFirst(errs) = errs[1]
    BY <1>2, <2>1, FirstError
  <2> QED
    BY <1>2, <2>2
<1> QED
  BY <1>1, <1>2, <1>3, <1>4, <1>5

LEMMA FirstOfFour ==
    ASSUME NEW a, NEW b, NEW c, NEW d
    PROVE  /\ errFirst(<<a, b, c, d>>) = Ok <=> a = Ok /\ b = Ok /\ c = Ok /\ d = Ok
           /\ errFirst(<<a, b, c, d>>) \in {Ok, a, b, c, d}
<1>1. PICK errs : errs = <<a, b, c, d>>
  OBVIOUS
<1>2. DOMAIN errs = 1..4 /\ errs[1] = a /\ errs[2] = b /\ errs[3] = c /\ errs[4] = d /\ 4 \in Nat
  BY <1>1
<1>3. /\ errFirst(errs) = Ok <=> \A i \in 1..4 : errs[i] = Ok
      /\ errFirst(errs) # Ok => \E i \in 1..4 : errFirst(errs) = errs[i]
  BY <1>2, FirstError
<1>4. \A i : i \in 1..4 <=> i = 1 \/ i = 2 \/ i = 3 \/ i = 4
  OBVIOUS
<1> QED
  BY <1>1, <1>2, <1>3, <1>4

-----------------------------------------------------------------------------
(* Options.                                                                 *)

\* What the options say of the earlier ones does not change when one is added.
LEMMA OptionsAppended ==
    ASSUME options \in Seq(Options), NEW o \in Options, options' = Append(options, o),
           NEW n, n = Len(options) + 1
    PROVE  /\ n \in Nat \ {0} /\ DOMAIN options = 1..(n - 1) /\ DOMAIN options' = 1..n
           /\ options' \in Seq(Options) /\ options'[n] = o
           /\ \A i \in 1..(n - 1) : options'[i] = options[i]
           /\ \A i \in 1..(n - 1) : Failed(i)' <=> Failed(i)
           /\ Failed(n)' <=> Fault(o) # Ok
<1>1. /\ n \in Nat \ {0} /\ DOMAIN options = 1..(n - 1) /\ DOMAIN options' = 1..n
      /\ options' \in Seq(Options) /\ options'[n] = o
      /\ \A i \in 1..(n - 1) : options'[i] = options[i]
  OBVIOUS
<1> QED
  BY <1>1 DEF Failed

\* What an option does to the client.
LEMMA Applied ==
    ASSUME Shapes, NEW o \in Options, client' = Apply(client, o)
    PROVE  /\ client' = [settings |-> client'.settings, err |-> client'.err]
           /\ Fault(o) # Ok =>
                 /\ client'.settings = client.settings
                 /\ client'.err = IF client.err = NoError
                                  THEN [option |-> o.name, reason |-> Fault(o)] ELSE client.err
           /\ Fault(o) = Ok => client'.err = client.err
           /\ Fault(o) = Ok /\ o.name \in Settings =>
                 client'.settings = [client.settings EXCEPT ![o.name] = o.arg]
           /\ o.name \notin Settings => client' = client /\ Fault(o) = Ok
<1>1. PICK c : c = client
  OBVIOUS
<1>2. c = [settings |-> c.settings, err |-> c.err] /\ client' = Apply(c, o)
  BY <1>1 DEF Shapes
<1>3. o.name \in Settings => o.name # "Option"
  BY DEF Settings
<1>4. o.name \notin Settings => o.name = "Option"
  BY OptionsAssumption
<1>5. CASE o.name = "Option"
  BY <1>1, <1>2, <1>3, <1>5 DEF Apply, Fault
<1>6. CASE o.name # "Option" /\ Fault(o) # Ok
  <2>1. client' = storeConfigErr(c, o.name, Fault(o))
    BY <1>2, <1>6 DEF Apply
  <2> QED
    BY <1>1, <1>2, <1>4, <1>6, <2>1 DEF storeConfigErr
<1>7. CASE o.name # "Option" /\ Fault(o) = Ok
  <2>1. client' = [c EXCEPT !.settings[o.name] = o.arg]
    BY <1>2, <1>7 DEF Apply
  <2> QED
    BY <1>1, <1>2, <1>4, <1>7, <2>1
<1> QED
  BY <1>5, <1>6, <1>7

\* An error that is kept stays; an option that fails first leaves its own.
LEMMA KeptStep ==
    ASSUME Shapes, KeptSoFar, NEW o \in Options, Give(o)
    PROVE  KeptSoFar'
<1>1. PICK n : n = Len(options) + 1
  OBVIOUS
<1>2. /\ n \in Nat \ {0} /\ DOMAIN options = 1..(n - 1) /\ DOMAIN options' = 1..n
      /\ options'[n] = o
      /\ \A i \in 1..(n - 1) : options'[i] = options[i] /\ (Failed(i)' <=> Failed(i))
      /\ Failed(n)' <=> Fault(o) # Ok
  BY <1>1, OptionsAppended DEF Give, Shapes
<1>3. /\ op' = op
      /\ Fault(o) # Ok => client'.err = IF client.err = NoError
                                        THEN [option |-> o.name, reason |-> Fault(o)] ELSE client.err
      /\ Fault(o) = Ok => client'.err = client.err
  BY Applied DEF Give
<1>4. /\ \A i \in 1..(n - 1) : FirstFailed(i)' <=> FirstFailed(i)
      /\ FirstFailed(n)' <=> Fault(o) # Ok /\ NoneFailed
      /\ NoneFailed' <=> Fault(o) = Ok /\ NoneFailed
  BY <1>2 DEF FirstFailed, NoneFailed
<1>5. CASE op.credential = "nil"
  <2>1. client.err = TheSource /\ TheSource # NoError
    BY <1>5 DEF KeptSoFar, TheSource, NoError
  <2>2. client'.err = TheSource
    BY <1>3, <2>1
  <2>3. TheSource' = TheSource
    BY DEF TheSource
  <2> QED
    BY <1>3, <1>5, <2>2, <2>3 DEF KeptSoFar
<1>6. CASE op.credential # "nil" /\ \E i \in DOMAIN options : FirstFailed(i) /\ client.err = TheOption(i)
  <2>1. PICK i \in DOMAIN options : FirstFailed(i) /\ client.err = TheOption(i)
    BY <1>6
  <2>2. client.err # NoError
    <3>1. client.err.reason # Ok
      BY <2>1 DEF TheOption, FirstFailed, Failed
    <3> QED
      BY <3>1 DEF NoError
  <2>3. client'.err = client.err
    BY <1>3, <2>2
  <2>4. i \in 1..(n - 1) /\ i \in DOMAIN options'
    BY <1>2, <2>1
  <2>5. FirstFailed(i)' /\ client'.err = TheOption(i)'
    BY <1>2, <1>4, <2>1, <2>3, <2>4 DEF TheOption
  <2> QED
    BY <1>3, <1>6, <2>4, <2>5 DEF KeptSoFar
<1>7. CASE op.credential # "nil" /\ NoneFailed /\ client.err = NoError
  <2>1. CASE Fault(o) = Ok
    <3>1. client'.err = NoError /\ NoneFailed'
      BY <1>3, <1>4, <1>7, <2>1
    <3> QED
      BY <1>3, <1>7, <3>1 DEF KeptSoFar, NoError
  <2>2. CASE Fault(o) # Ok
    <3>1. client'.err = [option |-> o.name, reason |-> Fault(o)]
      BY <1>3, <1>7, <2>2
    <3>2. client'.err = TheOption(n)' /\ FirstFailed(n)' /\ n \in DOMAIN options'
      BY <1>2, <1>4, <1>7, <2>2, <3>1 DEF TheOption
    <3> QED
      BY <1>3, <1>7, <3>2 DEF KeptSoFar
  <2> QED
    BY <2>1, <2>2
<1> QED
  BY <1>5, <1>6, <1>7 DEF KeptSoFar

\* A setting is that of its last option, of one that fails the one before.
LEMMA SettingsStep ==
    ASSUME Shapes, SettingsKept, NEW o \in Options, Give(o)
    PROVE  Shapes' /\ SettingsKept'
<1>1. PICK n : n = Len(options) + 1
  OBVIOUS
<1>2. /\ n \in Nat \ {0} /\ DOMAIN options = 1..(n - 1) /\ DOMAIN options' = 1..n
      /\ options' \in Seq(Options) /\ options'[n] = o
      /\ \A i \in 1..(n - 1) : options'[i] = options[i] /\ (Failed(i)' <=> Failed(i))
      /\ Failed(n)' <=> Fault(o) # Ok
  BY <1>1, OptionsAppended DEF Give, Shapes
<1>3. /\ client' = [settings |-> client'.settings, err |-> client'.err]
      /\ IF Fault(o) = Ok /\ o.name \in Settings
         THEN client'.settings = [client.settings EXCEPT ![o.name] = o.arg]
         ELSE client'.settings = client.settings
  BY Applied DEF Give
<1>4. DOMAIN client'.settings = Settings
  BY <1>3 DEF Shapes
<1>5. Shapes'
  BY <1>2, <1>3, <1>4 DEF Shapes, Give
<1>6. ASSUME NEW s \in Settings
      PROVE  (\/ /\ \A i \in DOMAIN options : ~(options[i].name = s /\ ~Failed(i))
                 /\ client.settings[s] = Default
              \/ \E i \in DOMAIN options : LastGiven(s, i) /\ client.settings[s] = options[i].arg)'
  <2>1. CASE o.name = s /\ Fault(o) = Ok
    <3>1. client'.settings[s] = options'[n].arg
      BY <1>2, <1>3, <2>1 DEF Shapes
    <3>2. LastGiven(s, n)' /\ n \in DOMAIN options'
      BY <1>2, <2>1 DEF LastGiven
    <3> QED
      BY <3>1, <3>2
  <2>2. CASE ~(o.name = s /\ Fault(o) = Ok)
    <3>1. client'.settings[s] = client.settings[s]
      BY <1>3, <2>2 DEF Shapes
    <3>2. CASE \A i \in DOMAIN options : ~(options[i].name = s /\ ~Failed(i))
      <4>1. client.settings[s] = Default
        BY <3>2 DEF SettingsKept, LastGiven
      <4>2. \A i \in DOMAIN options' : ~(options'[i].name = s /\ ~Failed(i)')
        BY <1>2, <2>2, <3>2
      <4> QED
        BY <3>1, <4>1, <4>2
    <3>3. CASE ~\A i \in DOMAIN options : ~(options[i].name = s /\ ~Failed(i))
      <4>1. PICK i \in DOMAIN options : LastGiven(s, i) /\ client.settings[s] = options[i].arg
        BY <3>3 DEF SettingsKept
      <4>2. i \in DOMAIN options' /\ LastGiven(s, i)'
        BY <1>2, <2>2, <4>1 DEF LastGiven
      <4>3. client'.settings[s] = options'[i].arg
        BY <1>2, <3>1, <4>1
      <4> QED
        BY <4>2, <4>3
    <3> QED
      BY <3>2, <3>3
  <2> QED
    BY <2>1, <2>2
<1> QED
  BY <1>5, <1>6 DEF SettingsKept

-----------------------------------------------------------------------------
(* The steps.                                                               *)

LEMMA ClientInit == Init => ClientInvariant
<1> SUFFICES ASSUME Init PROVE ClientInvariant
  OBVIOUS
<1>1. PICK c : c = [settings |-> Defaults, err |-> NoError]
  OBVIOUS
<1>2. client = c /\ options = <<>> /\ stage = "new" /\ call = NoCall /\ wire = NoRequest
  BY <1>1 DEF Init
<1>3. client.settings = Defaults /\ client.err = NoError /\ client = [settings |-> c.settings, err |-> c.err]
  BY <1>1, <1>2
<1>4. Shapes /\ SettingsKept
  BY <1>2, <1>3 DEF Shapes, SettingsKept, Defaults
<1>5. Built /\ VerdictOfCall /\ RequestOfCall
  BY <1>2, <1>3 DEF Built, FirstFailureKept, VerdictOfCall, IsMethod, RequestOfCall
<1> QED
  BY <1>4, <1>5 DEF ClientInvariant

\* The constructor's own failure comes first.
LEMMA ConstructStep ==
    ASSUME ClientInvariant, NEW name, NEW credential, Construct(name, credential)
    PROVE  ClientInvariant'
<1>1. PICK c : c = client
  OBVIOUS
<1>2. /\ c = [settings |-> c.settings, err |-> c.err] /\ c.err = NoError
      /\ stage = "new" /\ stage' = "options" /\ options = <<>> /\ options' = options
      /\ call' = call /\ wire' = wire /\ call = NoCall
  BY <1>1 DEF Construct, ClientInvariant, Shapes, Built
<1>3. op'.credential = credential
  BY DEF Construct
<1>4. /\ client' = [settings |-> client'.settings, err |-> client'.err]
      /\ client'.settings = client.settings
      /\ client'.err = IF credential = "nil" THEN TheSource ELSE NoError
  <2>1. CASE credential = "nil"
    BY <1>1, <1>2, <2>1 DEF Construct, storeConfigErr, TheSource
  <2>2. CASE credential # "nil"
    BY <1>1, <1>2, <2>2 DEF Construct
  <2> QED
    BY <2>1, <2>2
<1>5. Shapes'
  BY <1>2, <1>4 DEF ClientInvariant, Shapes
<1>6. SettingsKept'
  <2>1. DOMAIN options = {} /\ DOMAIN options' = {}
    BY <1>2
  <2>2. \A s \in Settings : client.settings[s] = Default
    BY <2>1 DEF ClientInvariant, SettingsKept
  <2>3. \A s \in Settings :
           (\A i \in DOMAIN options : ~(options[i].name = s /\ ~Failed(i)))' /\ client'.settings[s] = Default
    BY <1>4, <2>1, <2>2
  <2>4. ASSUME NEW s \in Settings
        PROVE  (\/ /\ \A i \in DOMAIN options : ~(options[i].name = s /\ ~Failed(i))
                   /\ client.settings[s] = Default
                \/ \E i \in DOMAIN options : LastGiven(s, i) /\ client.settings[s] = options[i].arg)'
    BY <2>3
  <2> QED
    BY <2>4 DEF SettingsKept
<1>7. KeptSoFar'
  <2>1. TheSource' = TheSource /\ NoError' = NoError
    BY DEF TheSource, NoError
  <2>2. NoneFailed'
    BY <1>2 DEF NoneFailed
  <2> QED
    BY <1>3, <1>4, <2>1, <2>2 DEF KeptSoFar
<1>8. Built'
  BY <1>2, <1>7 DEF Built, FirstFailureKept
<1>9. VerdictOfCall' /\ RequestOfCall'
  <2>1. ~IsMethod' /\ wire = NoRequest
    BY <1>2 DEF ClientInvariant, RequestOfCall, IsMethod
  <2> QED
    BY <1>2, <2>1 DEF VerdictOfCall, RequestOfCall
<1> QED
  BY <1>5, <1>6, <1>8, <1>9 DEF ClientInvariant

\* The Core gets the settings, and an empty token is the last failure looked for.
LEMMA BuildStep == ClientInvariant /\ Build => ClientInvariant'
<1> SUFFICES ASSUME ClientInvariant, Build PROVE ClientInvariant'
  OBVIOUS
<1>1. PICK c : c = client
  OBVIOUS
<1>2. /\ c = [settings |-> c.settings, err |-> c.err]
      /\ stage = "options" /\ stage' = "ready" /\ core' = c.settings
      /\ options' = options /\ op' = op /\ call' = call /\ wire' = wire
      /\ call = NoCall /\ KeptSoFar
  BY <1>1 DEF Build, ClientInvariant, Shapes, Built
<1>3. /\ client' = [settings |-> client'.settings, err |-> client'.err]
      /\ client'.settings = client.settings
      /\ client'.err = IF op.credential = "" /\ client.err = NoError THEN TheToken ELSE client.err
  <2>1. CASE op.credential = "" /\ c.err = NoError
    BY <1>1, <1>2, <2>1 DEF Build, storeConfigErr, TheToken
  <2>2. CASE ~(op.credential = "" /\ c.err = NoError)
    BY <1>1, <1>2, <2>2 DEF Build, storeConfigErr
  <2> QED
    BY <1>1, <2>1, <2>2
<1>4. Shapes'
  BY <1>2, <1>3 DEF ClientInvariant, Shapes
<1>5. \A i : /\ Failed(i)' <=> Failed(i)
             /\ FirstFailed(i)' <=> FirstFailed(i)
  BY <1>2 DEF Failed, FirstFailed
<1>6. SettingsKept'
  <2>1. \A s, i : LastGiven(s, i)' <=> LastGiven(s, i)
    BY <1>2, <1>5 DEF LastGiven
  <2>2. ASSUME NEW s \in Settings
        PROVE  (\/ /\ \A i \in DOMAIN options : ~(options[i].name = s /\ ~Failed(i))
                   /\ client.settings[s] = Default
                \/ \E i \in DOMAIN options : LastGiven(s, i) /\ client.settings[s] = options[i].arg)'
    BY <1>2, <1>3, <1>5, <2>1 DEF ClientInvariant, SettingsKept
  <2> QED
    BY <2>2 DEF SettingsKept
<1>7. FirstFailureKept'
  <2>1. CASE op.credential = "nil"
    <3>1. client'.err = TheSource
      BY <1>2, <1>3, <2>1 DEF KeptSoFar
    <3> QED
      BY <1>2, <2>1, <3>1 DEF FirstFailureKept, TheSource
  <2>2. CASE op.credential # "nil" /\ \E i \in DOMAIN options : FirstFailed(i) /\ client.err = TheOption(i)
    <3>1. PICK i \in DOMAIN options : FirstFailed(i) /\ client.err = TheOption(i)
      BY <2>2
    <3>2. client.err # NoError
      <4>1. client.err.reason # Ok
        BY <3>1 DEF TheOption, FirstFailed, Failed
      <4> QED
        BY <4>1 DEF NoError
    <3>3. i \in DOMAIN options' /\ FirstFailed(i)' /\ client'.err = TheOption(i)'
      BY <1>2, <1>3, <1>5, <3>1, <3>2 DEF TheOption
    <3> QED
      BY <1>2, <2>2, <3>3 DEF FirstFailureKept, TheOption
  <2>3. CASE op.credential # "nil" /\ NoneFailed /\ client.err = NoError
    <3>1. NoneFailed'
      BY <1>2, <1>5, <2>3 DEF NoneFailed
    <3>2. client'.err = IF op.credential = "" THEN TheToken ELSE NoError
      BY <1>3, <2>3
    <3>3. op.credential # "" => op'.credential \notin {"nil", ""}
      BY <1>2, <2>3
    <3> QED
      BY <1>2, <2>3, <3>1, <3>2, <3>3 DEF FirstFailureKept, TheToken, NoError
  <2> QED
    BY <1>2, <2>1, <2>2, <2>3 DEF KeptSoFar
<1>8. Built'
  BY <1>1, <1>2, <1>3, <1>7 DEF Built
<1>9. VerdictOfCall' /\ RequestOfCall'
  <2>1. ~IsMethod' /\ wire = NoRequest
    BY <1>2 DEF ClientInvariant, RequestOfCall, IsMethod
  <2> QED
    BY <1>2, <2>1 DEF VerdictOfCall, RequestOfCall
<1> QED
  BY <1>4, <1>6, <1>8, <1>9 DEF ClientInvariant

\* Calls leave the client as it was built.
LEMMA CallsLeaveClient ==
    ASSUME ClientInvariant, UNCHANGED <<stage, op, options, client, core>>,
           stage = "ready" \/ UNCHANGED call
    PROVE  Shapes' /\ SettingsKept' /\ Built'
<1>1. \A i : /\ Failed(i)' <=> Failed(i)
             /\ FirstFailed(i)' <=> FirstFailed(i)
             /\ TheOption(i)' = TheOption(i)
  BY DEF Failed, FirstFailed, TheOption
<1>2. NoneFailed' <=> NoneFailed
  BY <1>1 DEF NoneFailed
<1>3. Shapes' /\ SettingsKept'
  BY <1>1 DEF ClientInvariant, Shapes, SettingsKept, LastGiven
<1>4. FirstFailureKept'
  BY <1>1, <1>2 DEF ClientInvariant, Built, FirstFailureKept
<1>5. KeptSoFar' <=> KeptSoFar
  BY <1>1, <1>2 DEF KeptSoFar, TheSource
<1>6. Built'
  BY <1>4, <1>5 DEF ClientInvariant, Built
<1> QED
  BY <1>3, <1>6

\* do sends what the method built, and only when nothing refuses it.
LEMMA ClientStep == ClientInvariant /\ [Next]_vars => ClientInvariant'
<1> SUFFICES ASSUME ClientInvariant, [Next]_vars PROVE ClientInvariant'
  OBVIOUS
<1>1. ASSUME NEW name, NEW credential, Construct(name, credential)
      PROVE  ClientInvariant'
  BY <1>1, ConstructStep
<1>2. ASSUME NEW o \in Options, Give(o)
      PROVE  ClientInvariant'
  <2>1. Shapes' /\ SettingsKept'
    BY <1>2, SettingsStep DEF ClientInvariant
  <2>2. /\ KeptSoFar' /\ stage = "options" /\ stage' = "options"
        /\ UNCHANGED <<call, wire>> /\ call = NoCall
    BY <1>2, KeptStep DEF Give, ClientInvariant, Built
  <2>3. Built'
    BY <2>2 DEF Built, FirstFailureKept
  <2>4. VerdictOfCall' /\ RequestOfCall'
    <3>1. ~IsMethod' /\ wire = NoRequest
      BY <2>2 DEF ClientInvariant, RequestOfCall, IsMethod
    <3> QED
      BY <2>2, <3>1 DEF VerdictOfCall, RequestOfCall
  <2> QED
    BY <2>1, <2>3, <2>4 DEF ClientInvariant
<1>3. CASE Build
  BY <1>3, BuildStep
<1>4. ASSUME NEW c \in Calls \cup Probes, Invoke(c)
      PROVE  ClientInvariant'
  <2>1. Shapes' /\ SettingsKept' /\ Built'
    BY <1>4, CallsLeaveClient DEF Invoke
  <2>2. VerdictOfCall' /\ RequestOfCall'
    <3>1. /\ stage = "ready" /\ stage' = stage /\ client' = client /\ call' = c
          /\ verdict' = Refusal(c)
          /\ wire' = IF Refusal(c) = Ok THEN Request(c) ELSE NoRequest
      BY <1>4 DEF Invoke
    <3>2. Refusal(call)' = Refusal(c)
      BY <3>1 DEF Refusal
    <3>3. Request(call)' = Request(c)
      BY <3>1
    <3>4. wire' # NoRequest => Refusal(c) = Ok /\ wire' = Request(c)
      BY <3>1
    <3>5. Refusal(c) = Ok => client.err.reason = Ok
      <4>1. PICK p : p = Preflight(c, LocalToday)
        OBVIOUS
      <4>2. PICK s : s = IF HasEmptySegment(Path(c)) THEN "an id argument is empty" ELSE Ok
        OBVIOUS
      <4>3. errFirst(<<p, client.err.reason, s>>) = Ok <=> p = Ok /\ client.err.reason = Ok /\ s = Ok
        BY FirstOfThree
      <4> QED
        BY <4>1, <4>2, <4>3 DEF Refusal
    <3> QED
      BY <1>4, <3>1, <3>2, <3>3, <3>4, <3>5 DEF VerdictOfCall, RequestOfCall
  <2> QED
    BY <2>1, <2>2 DEF ClientInvariant
<1>5. ASSUME NEW p \in RawPaths, RawDo(p)
      PROVE  ClientInvariant'
  <2>1. Shapes' /\ SettingsKept' /\ Built'
    BY <1>5, CallsLeaveClient DEF RawDo
  <2>2. VerdictOfCall' /\ RequestOfCall'
    <3>1. /\ stage = "ready" /\ stage' = stage /\ client' = client
          /\ call' = [name |-> "RawDo"]
          /\ wire' # NoRequest => client.err.reason = Ok
      BY <1>5 DEF RawDo, RawRefusal
    <3> QED
      BY <3>1 DEF VerdictOfCall, RequestOfCall, IsMethod
  <2> QED
    BY <2>1, <2>2 DEF ClientInvariant
<1>6. CASE Return
  <2>1. Shapes' /\ SettingsKept' /\ Built'
    <3>1. stage = "ready"
      BY <1>6 DEF Return, ClientInvariant, Built
    <3> QED
      BY <1>6, <3>1, CallsLeaveClient DEF Return
  <2>2. VerdictOfCall' /\ RequestOfCall'
    BY <1>6 DEF Return, VerdictOfCall, RequestOfCall, IsMethod
  <2> QED
    BY <2>1, <2>2 DEF ClientInvariant
<1>7. CASE UNCHANGED vars
  <2>1. Shapes' /\ SettingsKept' /\ Built'
    BY <1>7, CallsLeaveClient DEF vars
  <2>2. VerdictOfCall' /\ RequestOfCall'
    <3>1. Refusal(call)' = Refusal(call) /\ Request(call)' = Request(call)
      BY <1>7 DEF vars, Refusal
    <3> QED
      BY <1>7, <3>1 DEF vars, ClientInvariant, VerdictOfCall, RequestOfCall, IsMethod
  <2> QED
    BY <2>1, <2>2 DEF ClientInvariant
<1> QED
  BY <1>1, <1>2, <1>3, <1>4, <1>5, <1>6, <1>7 DEF Next

\* The invariant holds of every client: what its options left in it, and what
\* its requests are made of.
THEOREM ClientCorrect == Spec => []ClientInvariant
  BY ClientInit, ClientStep, PTL DEF Spec

-----------------------------------------------------------------------------
(* Configuration.                                                           *)

LEMMA ContractHolds == ClientInvariant => ConfigContract
<1> SUFFICES ASSUME ClientInvariant PROVE ConfigContract
  OBVIOUS
<1>1. FirstFailureKept
  BY DEF ClientInvariant, Built
<1>2. Sent => stage = "ready" /\ client.err.reason = Ok
  BY DEF ClientInvariant, RequestOfCall, Sent
<1>3. NothingSentMisconfigured
  <2> SUFFICES ASSUME Sent PROVE Sound
    BY DEF NothingSentMisconfigured
  <2>1. client.err # [option |-> "ts", reason |-> "must not be nil"]
    <3>1. PICK e : e = [option |-> "ts", reason |-> "must not be nil"]
      OBVIOUS
    <3>2. e.reason # client.err.reason
      BY <1>2, <3>1 DEF Ok
    <3> QED
      BY <3>1, <3>2
  <2>2. client.err # [option |-> "token", reason |-> "must not be empty"]
    <3>1. PICK e : e = [option |-> "token", reason |-> "must not be empty"]
      OBVIOUS
    <3>2. e.reason # client.err.reason
      BY <1>2, <3>1 DEF Ok
    <3> QED
      BY <3>1, <3>2
  <2>3. \A i \in DOMAIN options :
            FirstFailed(i) => client.err # [option |-> options[i].name, reason |-> Fault(options[i])]
    BY <1>2 DEF FirstFailed, Failed
  <2> QED
    BY <1>1, <1>2, <2>1, <2>2, <2>3 DEF FirstFailureKept, Sound
<1>4. LastSettingWins
  <2> SUFFICES ASSUME Sent, NEW s \in Settings
               PROVE  LET given == {i \in DOMAIN options : options[i].name = s /\ ~Failed(i)}
                      IN  IF given = {} THEN core[s] = Default
                          ELSE \E i \in given : /\ \A j \in given : j <= i
                                                /\ core[s] = options[i].arg
    BY DEF LastSettingWins
  <2>1. core[s] = client.settings[s]
    BY <1>2 DEF ClientInvariant, Built
  <2>2. CASE /\ \A i \in DOMAIN options : ~(options[i].name = s /\ ~Failed(i))
             /\ client.settings[s] = Default
    BY <2>1, <2>2
  <2>3. CASE \E i \in DOMAIN options : LastGiven(s, i) /\ client.settings[s] = options[i].arg
    BY <2>1, <2>3 DEF LastGiven
  <2> QED
    BY <2>2, <2>3 DEF ClientInvariant, SettingsKept
<1> QED
  BY <1>1, <1>3, <1>4 DEF ConfigContract

\* The config-error contract, for any options in any order: the first failure
\* is the one that is kept, nothing is sent by a client that has one, and what
\* is sent runs on the last accepted value of every setting.
THEOREM ConfigCorrect == Spec => []ConfigContract
  BY ClientCorrect, ContractHolds, PTL

-----------------------------------------------------------------------------
(* The fields of a payload.                                                 *)

\* An optional text over its bound.
TooLong(o, limit) == o.state = "value" /\ o.value > limit

\* A payee name and a memo pass when neither is too long.
LEMMA PayeeMemoChecked ==
    ASSUME NEW x
    PROVE  /\ checkPayeeMemo(x) = Ok <=> /\ ~TooLong(x.opt.payee_name, 200)
                                         /\ ~TooLong(x.opt.memo, 500)
           /\ checkPayeeMemo(x) \in {Ok, "payee_name", "memo"}
           /\ checkPayeeMemo(x) = "payee_name" => TooLong(x.opt.payee_name, 200)
           /\ checkPayeeMemo(x) = "memo" => TooLong(x.opt.memo, 500)
<1>1. PICK a : a = checkOptRuneMax("payee_name", x.opt.payee_name, transactionPayeeNameMax)
  OBVIOUS
<1>2. PICK b : b = checkOptRuneMax("memo", x.opt.memo, memoMax)
  OBVIOUS
<1>3. checkPayeeMemo(x) = errFirst(<<a, b>>)
  BY <1>1, <1>2 DEF checkPayeeMemo
<1>4. a = IF TooLong(x.opt.payee_name, 200) THEN "payee_name" ELSE Ok
  BY <1>1 DEF checkOptRuneMax, checkRuneMax, TooLong, transactionPayeeNameMax
<1>5. b = IF TooLong(x.opt.memo, 500) THEN "memo" ELSE Ok
  BY <1>2 DEF checkOptRuneMax, checkRuneMax, TooLong, memoMax
<1>6. Ok # "payee_name" /\ Ok # "memo"
  BY DEF Ok
<1> QED
  BY <1>3, <1>4, <1>5, <1>6, FirstOfTwo

\* The JSON object has the required fields and the optional ones that are set.
LEMMA FieldsOf ==
    ASSUME NEW x
    PROVE  /\ DOMAIN Fields(x) \subseteq DOMAIN x.req \cup DOMAIN x.opt
           /\ \A k \in DOMAIN x.req : k \in DOMAIN Fields(x) /\ Fields(x)[k] = x.req[k]
           /\ \A k \in DOMAIN x.opt \ DOMAIN x.req :
                  /\ k \in DOMAIN Fields(x) <=> x.opt[k].state # "unset"
                  /\ k \in DOMAIN Fields(x) => Fields(x)[k] = Encoded(x.opt[k])
<1>1. PICK set : set = {f \in DOMAIN x.opt : ~Omitted(x.opt[f])}
  OBVIOUS
<1>2. PICK g : g = [f \in set |-> Encoded(x.opt[f])]
  OBVIOUS
<1>3. Fields(x) = Joined(x.req, g) /\ DOMAIN g = set
  BY <1>1, <1>2 DEF Fields
<1>4. PICK j : j = Joined(x.req, g)
  OBVIOUS
<1>5. /\ DOMAIN j = DOMAIN x.req \cup set
      /\ \A k \in DOMAIN x.req : j[k] = x.req[k]
      /\ \A k \in set \ DOMAIN x.req : j[k] = Encoded(x.opt[k])
  BY <1>2, <1>3, <1>4 DEF Joined
<1> QED
  BY <1>1, <1>3, <1>4, <1>5 DEF Omitted

\* The amounts of the legs of a split.
Amounts(splits) == [i \in DOMAIN splits |-> splits[i].req.amount]

\* The code's sum of them is what the word keeps of the exact one.
LEMMA LegsSummed ==
    ASSUME NEW splits \in Seq(SplitLeg)
    PROVE  /\ Total(Amounts(splits)) \in Int
           /\ SplitSum(Amounts(splits)) = Wrapped(Total(Amounts(splits)))
<1>1. PICK n \in Nat : n = Len(splits) /\ DOMAIN splits = 1..n
  OBVIOUS
<1>2. \A i \in 1..n : splits[i] \in SplitLeg
  BY <1>1
<1>3. \A leg \in SplitLeg : leg.req.amount \in Milliunits
  BY DEF SplitLeg
<1>4. \A i \in 1..n : splits[i].req.amount \in Int
  BY <1>2, <1>3, WrappedFits
<1>5. Amounts(splits) \in [1..n -> Int]
  BY <1>1, <1>4 DEF Amounts
<1>6. PICK g : /\ g \in [0..n -> Int]
               /\ Total(Amounts(splits)) = g[n] /\ SplitSum(Amounts(splits)) = Wrapped(g[n])
  BY <1>5, Summed
<1> QED
  BY <1>6

-----------------------------------------------------------------------------
(* The payloads of each kind of method.                                     *)

\* The kinds of methods that check their payload.
Kinds == {"specs", "patches", "update", "scheduled", "reschedule", "payee", "group"}

LEMMA PayloadKinds == ASSUME NEW kind, NEW x \in Payload(kind) PROVE kind \in Kinds
  BY DEF Payload, Kinds

\* An item with an optional payee name and memo.
PayeeMemoShape(x) == /\ {"payee_name", "memo"} \subseteq DOMAIN x.opt \ DOMAIN x.req
                     /\ x.opt.payee_name \in Optional(Nat) /\ x.opt.memo \in Optional(Nat)

LEMMA SpecShape ==
    ASSUME NEW x \in Payload("specs")
    PROVE  /\ DOMAIN x.req = {"amount", "splits"} /\ x.req.amount \in Milliunits
           /\ x.req.splits \in Seq(SplitLeg)
           /\ DOMAIN x.opt = {"import_id", "payee_name", "memo"}
           /\ x.opt.import_id \in Optional(Nat) /\ PayeeMemoShape(x)
  BY DEF Payload, PayeeMemoShape

LEMMA LegShape ==
    ASSUME NEW x \in SplitLeg
    PROVE  /\ DOMAIN x.req = {"amount"} /\ DOMAIN x.opt = {"payee_name", "memo"}
           /\ PayeeMemoShape(x)
  BY DEF SplitLeg, PayeeMemo, PayeeMemoShape

LEMMA PatchShape ==
    ASSUME NEW x \in Payload("patches")
    PROVE  /\ DOMAIN x.req = {} /\ DOMAIN x.opt = {"payee_name", "memo"}
           /\ x.id \in Nat /\ x.import_id \in Nat /\ "import_id" \in DOMAIN x
           /\ PayeeMemoShape(x)
  BY DEF Payload, PayeeMemo, PayeeMemoShape, NoFields

LEMMA UpdateShape ==
    ASSUME NEW x \in Payload("update")
    PROVE  DOMAIN x.req = {} /\ DOMAIN x.opt = {"payee_name", "memo"} /\ PayeeMemoShape(x)
  BY DEF Payload, PayeeMemo, PayeeMemoShape, NoFields

LEMMA ScheduledShape ==
    ASSUME NEW x \in Payload("scheduled")
    PROVE  /\ DOMAIN x.req = {"date"} /\ DOMAIN x.opt = {"payee_name", "memo"}
           /\ x.req.date \in Dated /\ PayeeMemoShape(x)
  BY DEF Payload, PayeeMemo, PayeeMemoShape

LEMMA RescheduleShape ==
    ASSUME NEW x \in Payload("reschedule")
    PROVE  /\ DOMAIN x.req = {} /\ DOMAIN x.opt = {"date", "payee_name", "memo"}
           /\ x.opt.date \in Optional(Dated) /\ PayeeMemoShape(x)
  BY DEF Payload, PayeeMemoShape, NoFields

LEMMA NamedShape ==
    ASSUME NEW kind \in {"payee", "group"}, NEW x \in Payload(kind)
    PROVE  DOMAIN x.req = {"name"} /\ DOMAIN x.opt = {} /\ x.req.name \in Nat
  BY DEF Payload, NoFields

\* An optional text that is not too long is within its bound on the wire.
LEMMA TextWithin ==
    ASSUME NEW x, NEW k \in DOMAIN x.opt \ DOMAIN x.req, x.opt[k] \in Optional(Nat),
           NEW limit \in Nat, ~TooLong(x.opt[k], limit)
    PROVE  Within(Fields(x), k, limit)
<1>1. PICK o : o = x.opt[k]
  OBVIOUS
<1>2. k \in DOMAIN Fields(x) => Fields(x)[k] = Encoded(o)
  BY <1>1, FieldsOf
<1>3. Encoded(o) = Null \/ Encoded(o) <= limit
  BY <1>1 DEF Optional, Encoded, TooLong
<1> QED
  BY <1>2, <1>3 DEF Within

LEMMA PayeeMemoWithin ==
    ASSUME NEW x, PayeeMemoShape(x), checkPayeeMemo(x) = Ok
    PROVE  Within(Fields(x), "payee_name", 200) /\ Within(Fields(x), "memo", 500)
<1>1. /\ ~TooLong(x.opt["payee_name"], 200)
      /\ ~TooLong(x.opt["memo"], 500)
  BY PayeeMemoChecked
<1>2. /\ "payee_name" \in DOMAIN x.opt \ DOMAIN x.req /\ "memo" \in DOMAIN x.opt \ DOMAIN x.req
      /\ x.opt["payee_name"] \in Optional(Nat) /\ x.opt["memo"] \in Optional(Nat)
  BY DEF PayeeMemoShape
<1>3. Within(Fields(x), "payee_name", 200)
  BY <1>1, <1>2, TextWithin
<1>4. Within(Fields(x), "memo", 500)
  BY <1>1, <1>2, TextWithin
<1> QED
  BY <1>3, <1>4

\* A payee or memo that is refused is too long.
LEMMA PayeeMemoRefused ==
    ASSUME NEW x, NEW y \in Parts(x), PayeeMemoShape(y), NEW e, e = checkPayeeMemo(y), e # Ok
    PROVE  e \in {"payee_name", "memo"} /\ Wrong(x, e)
<1>1. {"payee_name", "memo"} \subseteq DOMAIN y.opt
  BY DEF PayeeMemoShape
<1>2. CASE e = "payee_name"
  <2>1. Over(y, e, 200)
    BY <1>1, <1>2, PayeeMemoChecked DEF TooLong, Over
  <2> QED
    BY <1>2, <2>1 DEF Wrong
<1>3. CASE e = "memo"
  <2>1. Over(y, e, 500)
    BY <1>1, <1>3, PayeeMemoChecked DEF TooLong, Over
  <2> QED
    BY <1>3, <2>1 DEF Wrong
<1> QED
  BY <1>2, <1>3, PayeeMemoChecked

-----------------------------------------------------------------------------
(* Dates.                                                                   *)

\* A date that is accepted is in the window, and one that is refused is not
\* among the days that are in it whatever the month.
LEMMA DateChecked ==
    ASSUME RealDay(LocalToday), NEW d \in Dated
    PROVE  /\ checkScheduledDate(d, LocalToday) = "ok" =>
                  d # NoDate /\ DayNumber(d) - DayNumber(LocalToday) \in 0..1827
           /\ checkScheduledDate(d, LocalToday) # "ok" => DateOut(d)
<1>1. CASE d = NoDate
  BY <1>1 DEF checkScheduledDate, DateRequired, DateOut
<1>2. CASE d # NoDate
  <2>1. RealDay(d)
    BY <1>2 DEF Dated
  <2>2. /\ DayNumber(d) \in Int /\ DayNumber(LocalToday) \in Int /\ LastDay(LocalToday) \in Int
        /\ LastDay(LocalToday) - DayNumber(LocalToday) \in FiveYears(LocalToday)..1827
    BY <2>1, DayWithin, WindowEnds
  <2>3. FiveYears(LocalToday) \in {1825, 1826}
    BY DEF FiveYears
  <2>4. checkScheduledDate(d, LocalToday) = IF DayNumber(d) < DayNumber(LocalToday) THEN InThePast
                                            ELSE IF DayNumber(d) > LastDay(LocalToday) THEN TooFarOut
                                            ELSE "ok"
    BY <2>1, WindowChecked
  <2>5. checkScheduledDate(d, LocalToday) = "ok"
           => DayNumber(d) >= DayNumber(LocalToday) /\ DayNumber(d) <= LastDay(LocalToday)
    BY <2>2, <2>4 DEF InThePast, TooFarOut
  <2>6. checkScheduledDate(d, LocalToday) # "ok"
           => DayNumber(d) < DayNumber(LocalToday) \/ DayNumber(d) > LastDay(LocalToday)
    BY <2>4
  <2>7. checkScheduledDate(d, LocalToday) # "ok" => DateOut(d)
    BY <2>2, <2>3, <2>6 DEF DateOut
  <2> QED
    BY <1>2, <2>2, <2>3, <2>5, <2>7
<1> QED
  BY <1>1, <1>2

-----------------------------------------------------------------------------
(* What the checks refuse.                                                  *)

\* The fields that a check of an item may refuse.
ItemErrors == {"import_id", "payee_name", "memo", "amount", "id", "date", "name"}

\* What the check of a spec lets through, and what it refuses.
SpecBounded(x) ==
    /\ ~TooLong(x.opt.import_id, 36) /\ ~TooLong(x.opt.payee_name, 200) /\ ~TooLong(x.opt.memo, 500)
    /\ \A j \in DOMAIN x.req.splits : /\ ~TooLong(x.req.splits[j].opt.payee_name, 200)
                                      /\ ~TooLong(x.req.splits[j].opt.memo, 500)
    /\ x.req.splits # <<>> => SplitSum(Amounts(x.req.splits)) = x.req.amount

LEMMA SpecChecked ==
    ASSUME NEW x \in Payload("specs")
    PROVE  /\ validateSpec(x) = Ok => SpecBounded(x)
           /\ validateSpec(x) # Ok => validateSpec(x) \in ItemErrors /\ Wrong(x, validateSpec(x))
<1>1. PICK splits \in Seq(SplitLeg) : splits = x.req.splits
  BY SpecShape
<1>2. PICK n \in Nat : n = Len(splits) /\ DOMAIN splits = 1..n
  OBVIOUS
<1>3. PICK a : a = checkOptRuneMax("import_id", x.opt.import_id, importIDMax)
  OBVIOUS
<1>4. PICK b : b = checkPayeeMemo(x)
  OBVIOUS
<1>5. PICK legs : legs = [i \in DOMAIN splits |-> checkPayeeMemo(splits[i])]
  OBVIOUS
<1>6. PICK c : c = errFirst(legs)
  OBVIOUS
<1>7. PICK d : d = IF splits # <<>> /\ SplitSum(Amounts(splits)) # x.req.amount THEN "amount" ELSE Ok
  OBVIOUS
<1>8. validateSpec(x) = errFirst(<<a, b, c, d>>)
  BY <1>1, <1>3, <1>4, <1>5, <1>6, <1>7 DEF validateSpec, Amounts
<1>9. a = IF TooLong(x.opt.import_id, 36) THEN "import_id" ELSE Ok
  BY <1>3 DEF checkOptRuneMax, checkRuneMax, TooLong, importIDMax
<1>10. /\ c = Ok <=> \A i \in 1..n : legs[i] = Ok
       /\ c # Ok => \E i \in 1..n : c = legs[i]
  <2>1. DOMAIN legs = 1..n
    BY <1>2, <1>5
  <2> QED
    BY <1>6, <2>1, FirstError
<1>11. \A i \in 1..n : legs[i] = checkPayeeMemo(splits[i])
  BY <1>2, <1>5
<1>12. Ok \notin {"import_id", "payee_name", "memo", "amount"}
  BY DEF Ok
<1>13. ASSUME validateSpec(x) = Ok PROVE SpecBounded(x)
  <2>0. errFirst(<<a, b, c, d>>) = Ok <=> a = Ok /\ b = Ok /\ c = Ok /\ d = Ok
    BY FirstOfFour
  <2>1. a = Ok /\ b = Ok /\ c = Ok /\ d = Ok
    BY <1>8, <1>13, <2>0
  <2>2. ~TooLong(x.opt.import_id, 36) /\ ~TooLong(x.opt.payee_name, 200) /\ ~TooLong(x.opt.memo, 500)
    <3>1. checkPayeeMemo(x) = Ok <=> ~TooLong(x.opt.payee_name, 200) /\ ~TooLong(x.opt.memo, 500)
      BY PayeeMemoChecked
    <3> QED
      BY <1>4, <1>9, <1>12, <2>1, <3>1
  <2>3. \A i \in 1..n : checkPayeeMemo(splits[i]) = Ok
    BY <1>10, <1>11, <2>1
  <2>4. \A i \in 1..n : ~TooLong(splits[i].opt.payee_name, 200) /\ ~TooLong(splits[i].opt.memo, 500)
    BY <2>3, PayeeMemoChecked
  <2>5. splits # <<>> => SplitSum(Amounts(splits)) = x.req.amount
    BY <1>7, <1>12, <2>1
  <2> QED
    BY <1>1, <1>2, <2>2, <2>4, <2>5 DEF SpecBounded
<1>14. ASSUME validateSpec(x) # Ok
       PROVE  validateSpec(x) \in ItemErrors /\ Wrong(x, validateSpec(x))
  <2>1. validateSpec(x) \in {a, b, c, d}
    BY <1>8, <1>14, FirstOfFour
  <2>2. CASE validateSpec(x) = a
    <3>1. validateSpec(x) = "import_id" /\ TooLong(x.opt.import_id, 36)
      BY <1>9, <1>14, <2>2
    <3>2. Over(x, "import_id", 36)
      BY <3>1, SpecShape DEF TooLong, Over
    <3> QED
      BY <3>1, <3>2 DEF Wrong, ItemErrors
  <2>3. CASE validateSpec(x) = b
    <3>1. x \in Parts(x) /\ PayeeMemoShape(x)
      BY SpecShape DEF Parts
    <3> QED
      BY <1>4, <1>14, <2>3, <3>1, PayeeMemoRefused DEF ItemErrors
  <2>4. CASE validateSpec(x) = c
    <3>1. PICK i \in 1..n : c = checkPayeeMemo(splits[i])
      BY <1>10, <1>11, <1>14, <2>4
    <3>2. splits[i] \in Parts(x)
      BY <1>1, <1>2, SpecShape DEF Parts, ToSet
    <3>3. PayeeMemoShape(splits[i])
      BY <1>2, LegShape
    <3> QED
      BY <1>14, <2>4, <3>1, <3>2, <3>3, PayeeMemoRefused DEF ItemErrors
  <2>5. CASE validateSpec(x) = d
    <3>1. validateSpec(x) = "amount" /\ SplitSum(Amounts(splits)) # x.req.amount
      BY <1>7, <1>14, <2>5
    <3>2. Total(Amounts(splits)) # x.req.amount
      BY <1>1, <3>1, LegsSummed, SpecShape, WrappedFits
    <3>3. ExactSum([j \in DOMAIN x.req.splits |-> x.req.splits[j].req]) = Total(Amounts(splits))
      BY <1>1 DEF ExactSum, Amounts
    <3> QED
      BY <3>1, <3>2, <3>3 DEF Wrong, ItemErrors
  <2> QED
    BY <2>1, <2>2, <2>3, <2>4, <2>5
<1> QED
  BY <1>13, <1>14

LEMMA PatchRefused ==
    ASSUME NEW x \in Payload("patches"), NEW e, e = validatePatch(x), e # Ok
    PROVE  e \in ItemErrors /\ Wrong(x, e)
<1>1. PICK a : a = IF x.id = 0 /\ x.import_id = 0 THEN "id" ELSE Ok
  OBVIOUS
<1>2. PICK b : b = checkRuneMax("import_id", x.import_id, importIDMax)
  OBVIOUS
<1>3. PICK c : c = checkPayeeMemo(x)
  OBVIOUS
<1>4. e = errFirst(<<a, b, c>>)
  BY <1>1, <1>2, <1>3 DEF validatePatch, validateUpdate
<1>5. errFirst(<<a, b, c>>) \in {Ok, a, b, c}
  BY FirstOfThree
<1>6. CASE e = a
  BY <1>1, <1>6 DEF Wrong, ItemErrors
<1>7. CASE e = b
  <2>1. e = "import_id" /\ x.import_id > 36
    BY <1>2, <1>7 DEF checkRuneMax, importIDMax
  <2> QED
    BY <2>1, PatchShape DEF Wrong, ItemErrors
<1>8. CASE e = c
  <2>1. x \in Parts(x) /\ PayeeMemoShape(x)
    BY PatchShape DEF Parts
  <2> QED
    BY <1>3, <1>8, <2>1, PayeeMemoRefused DEF ItemErrors
<1> QED
  BY <1>4, <1>5, <1>6, <1>7, <1>8

LEMMA UpdateRefused ==
    ASSUME NEW x \in Payload("update"), NEW e, e = validateUpdate(x), e # Ok
    PROVE  e \in ItemErrors /\ Wrong(x, e)
<1>1. x \in Parts(x) /\ PayeeMemoShape(x)
  BY UpdateShape DEF Parts
<1> QED
  BY <1>1, PayeeMemoRefused DEF validateUpdate, ItemErrors

LEMMA ScheduledRefused ==
    ASSUME RealDay(LocalToday), NEW x \in Payload("scheduled"),
           NEW e, e = validateScheduled(x, LocalToday), e # Ok
    PROVE  e \in ItemErrors /\ Wrong(x, e)
<1>1. PICK d : d = x.req.date
  OBVIOUS
<1>2. PICK a : a = IF checkScheduledDate(d, LocalToday) # "ok" THEN "date" ELSE Ok
  OBVIOUS
<1>3. PICK b : b = checkPayeeMemo(x)
  OBVIOUS
<1>4. e = errFirst(<<a, b>>)
  BY <1>1, <1>2, <1>3 DEF validateScheduled
<1>5. errFirst(<<a, b>>) \in {Ok, a, b}
  BY FirstOfTwo
<1>6. CASE e = a
  <2>1. e = "date" /\ DateOut(d)
    BY <1>1, <1>2, <1>6, DateChecked, ScheduledShape
  <2> QED
    BY <1>1, <2>1, ScheduledShape DEF Wrong, ItemErrors
<1>7. CASE e = b
  <2>1. x \in Parts(x) /\ PayeeMemoShape(x)
    BY ScheduledShape DEF Parts
  <2> QED
    BY <1>3, <1>7, <2>1, PayeeMemoRefused DEF ItemErrors
<1> QED
  BY <1>4, <1>5, <1>6, <1>7

LEMMA RescheduleRefused ==
    ASSUME RealDay(LocalToday), NEW x \in Payload("reschedule"),
           NEW e, e = validateScheduledUpdate(x, LocalToday), e # Ok
    PROVE  e \in ItemErrors /\ Wrong(x, e)
<1>1. PICK o \in Optional(Dated) : o = x.opt.date
  BY RescheduleShape
<1>2. PICK a : a = IF o.state = "value" /\ checkScheduledDate(o.value, LocalToday) # "ok"
                   THEN "date" ELSE Ok
  OBVIOUS
<1>3. PICK b : b = checkPayeeMemo(x)
  OBVIOUS
<1>4. e = errFirst(<<a, b>>)
  BY <1>1, <1>2, <1>3 DEF validateScheduledUpdate
<1>5. errFirst(<<a, b>>) \in {Ok, a, b}
  BY FirstOfTwo
<1>6. CASE e = a
  <2>1. e = "date" /\ o.state = "value" /\ checkScheduledDate(o.value, LocalToday) # "ok"
    BY <1>2, <1>6
  <2>2. o.value \in Dated
    BY <2>1 DEF Optional
  <2>3. DateOut(o.value)
    BY <2>1, <2>2, DateChecked
  <2>4. "date" \notin DOMAIN x.req
    BY RescheduleShape
  <2> QED
    BY <1>1, <2>1, <2>3, <2>4 DEF Wrong, ItemErrors
<1>7. CASE e = b
  <2>1. x \in Parts(x) /\ PayeeMemoShape(x)
    BY RescheduleShape DEF Parts
  <2> QED
    BY <1>3, <1>7, <2>1, PayeeMemoRefused DEF ItemErrors
<1> QED
  BY <1>4, <1>5, <1>6, <1>7

\* The bounds of a payee's name and of a category group's, told apart by the wrapper.
NamesTold(kind) == /\ kind = "payee" => call.method.body = "payee"
                   /\ kind = "group" => call.method.body # "payee"

\* An item that is refused is refused for something that is wrong with it.
LEMMA ItemRefused ==
    ASSUME RealDay(LocalToday), NEW kind, NEW x \in Payload(kind), NamesTold(kind),
           NEW e, e = validateItem(kind, x, LocalToday), e # Ok
    PROVE  e \in ItemErrors /\ Wrong(x, e)
<1>1. kind \in Kinds
  BY PayloadKinds
<1>2. CASE kind = "specs"
  <2>1. e = validateSpec(x)
    BY <1>2 DEF validateItem
  <2> QED
    BY <1>2, <2>1, SpecChecked DEF ItemErrors
<1>3. CASE kind = "patches"
  BY <1>3, PatchRefused DEF validateItem
<1>4. CASE kind = "update"
  BY <1>4, UpdateRefused DEF validateItem
<1>5. CASE kind = "scheduled"
  BY <1>5, ScheduledRefused DEF validateItem
<1>6. CASE kind = "reschedule"
  BY <1>6, RescheduleRefused DEF validateItem
<1>7. CASE kind \in {"payee", "group"}
  <2>1. e = checkRuneMax("name", x.req.name, IF kind = "payee" THEN 500 ELSE 50)
    BY <1>7 DEF validateItem, payeeNameMax, categoryGroupNameMax
  <2>2. e = "name" /\ x.req.name > IF kind = "payee" THEN 500 ELSE 50
    BY <2>1 DEF checkRuneMax
  <2> QED
    BY <1>7, <2>2 DEF Wrong, ItemErrors, NamesTold
<1> QED
  BY <1>1, <1>2, <1>3, <1>4, <1>5, <1>6, <1>7 DEF Kinds

-----------------------------------------------------------------------------
(* What the checks let through.                                             *)

\* The keys of a body item whose bounds depend on its kind.
LEMMA PlainWithin ==
    ASSUME NEW x, PayeeMemoShape(x), checkPayeeMemo(x) = Ok,
           call.method.check # "patches",
           (DOMAIN x.req \cup DOMAIN x.opt) \cap {"import_id", "name", "date"} = {}
    PROVE  ItemWithin(Fields(x))
<1>1. {"import_id", "name", "date"} \cap DOMAIN Fields(x) = {}
  BY FieldsOf
<1>2. Within(Fields(x), "payee_name", 200) /\ Within(Fields(x), "memo", 500)
  BY PayeeMemoWithin
<1> QED
  BY <1>1, <1>2 DEF ItemWithin, Within

\* The legs of a split, as they are sent.
BodyLegs(splits) == [j \in DOMAIN splits |-> Fields(splits[j])]

\* A spec is sent within the bounds, with legs that are and that sum to it.
LEMMA SpecWithin ==
    ASSUME NEW x \in Payload("specs"), validateSpec(x) = Ok, call.method.check = "specs",
           NEW b, b = BodyItem("specs", x)
    PROVE  /\ ItemWithin(b)
           /\ \A j \in DOMAIN b.splits : ItemWithin(b.splits[j])
           /\ b.splits # <<>> /\ ExactSum(b.splits) \in Milliunits => ExactSum(b.splits) = b.amount
<1>1. PICK splits \in Seq(SplitLeg) : splits = x.req.splits
  BY SpecShape
<1>2. PICK n \in Nat : n = Len(splits) /\ DOMAIN splits = 1..n
  OBVIOUS
<1>3. PICK f : f = Fields(x)
  OBVIOUS
<1>4. PICK legs : legs = BodyLegs(splits)
  OBVIOUS
<1>5. b = [f EXCEPT !.splits = legs]
  BY <1>1, <1>3, <1>4 DEF BodyItem, BodyLegs
<1>6. /\ DOMAIN f \subseteq {"amount", "splits", "import_id", "payee_name", "memo"}
      /\ {"amount", "splits"} \subseteq DOMAIN f /\ f.amount = x.req.amount
  BY <1>3, FieldsOf, SpecShape
<1>7. /\ DOMAIN b = DOMAIN f /\ b.splits = legs /\ b.amount = x.req.amount
      /\ \A k \in DOMAIN f : k # "splits" => b[k] = f[k]
  BY <1>5, <1>6
<1>8. SpecBounded(x)
  BY SpecChecked
<1>9. Within(f, "import_id", 36)
  <2>1. "import_id" \in DOMAIN x.opt \ DOMAIN x.req /\ x.opt["import_id"] \in Optional(Nat)
    BY SpecShape
  <2>2. ~TooLong(x.opt["import_id"], 36)
    BY <1>8 DEF SpecBounded
  <2> QED
    BY <1>3, <2>1, <2>2, TextWithin
<1>10. Within(f, "payee_name", 200) /\ Within(f, "memo", 500)
  <2>1. PayeeMemoShape(x) /\ checkPayeeMemo(x) = Ok
    BY <1>8, SpecShape, PayeeMemoChecked DEF SpecBounded
  <2> QED
    BY <1>3, <2>1, PayeeMemoWithin
<1>11. ItemWithin(b)
  <2>1. \A k \in {"import_id", "payee_name", "memo"} : k \in DOMAIN b => k \in DOMAIN f /\ b[k] = f[k]
    BY <1>7
  <2>2. Within(b, "import_id", 36) /\ Within(b, "payee_name", 200) /\ Within(b, "memo", 500)
    BY <1>9, <1>10, <2>1 DEF Within
  <2>3. "name" \notin DOMAIN b /\ "date" \notin DOMAIN b
    BY <1>6, <1>7
  <2> QED
    BY <2>2, <2>3 DEF ItemWithin, Within
<1>12. ASSUME NEW j \in DOMAIN b.splits PROVE ItemWithin(b.splits[j])
  <2>1. j \in 1..n /\ b.splits[j] = Fields(splits[j])
    BY <1>2, <1>4, <1>7 DEF BodyLegs
  <2>2. PICK y \in SplitLeg : y = splits[j]
    BY <1>2, <2>1
  <2>3. ~TooLong(y.opt.payee_name, 200) /\ ~TooLong(y.opt.memo, 500)
    BY <1>1, <1>2, <1>8, <2>1, <2>2 DEF SpecBounded
  <2>4. checkPayeeMemo(y) = Ok
    BY <2>3, PayeeMemoChecked
  <2>5. ItemWithin(Fields(y))
    BY <2>4, LegShape, PlainWithin
  <2> QED
    BY <2>1, <2>2, <2>5
<1>13. ASSUME b.splits # <<>>, ExactSum(b.splits) \in Milliunits
       PROVE  ExactSum(b.splits) = b.amount
  <2>1. splits # <<>>
    <3> SUFFICES ASSUME splits = <<>> PROVE FALSE
      OBVIOUS
    <3>1. legs = <<>>
      BY <1>4 DEF BodyLegs
    <3> QED
      BY <1>7, <1>13, <3>1
  <2>2. \A j \in 1..n : legs[j].amount = splits[j].req.amount
    <3> SUFFICES ASSUME NEW j \in 1..n PROVE legs[j].amount = splits[j].req.amount
      OBVIOUS
    <3>1. PICK y \in SplitLeg : y = splits[j]
      BY <1>2
    <3>2. legs[j] = Fields(y)
      BY <1>2, <1>4, <3>1 DEF BodyLegs
    <3>3. Fields(y)["amount"] = y.req["amount"]
      BY FieldsOf, LegShape
    <3> QED
      BY <3>1, <3>2, <3>3
  <2>3. ExactSum(b.splits) = Total(Amounts(splits))
    <3>1. DOMAIN legs = 1..n
      BY <1>2, <1>4 DEF BodyLegs
    <3>2. [j \in DOMAIN legs |-> legs[j].amount] = [j \in DOMAIN splits |-> splits[j].req.amount]
      BY <1>2, <2>2, <3>1
    <3> QED
      BY <1>7, <3>2 DEF ExactSum, Amounts
  <2>4. SplitSum(Amounts(splits)) = x.req.amount
    BY <1>1, <1>8, <2>1 DEF SpecBounded
  <2>5. SplitSum(Amounts(splits)) = Wrapped(Total(Amounts(splits)))
    BY LegsSummed
  <2>6. Wrapped(Total(Amounts(splits))) = Total(Amounts(splits))
    BY <1>13, <2>3, WrappedFits
  <2> QED
    BY <1>7, <2>3, <2>4, <2>5, <2>6
<1> QED
  BY <1>11, <1>12, <1>13

\* A patch is sent with one identity, an import id within its bound.
LEMMA PatchWithin ==
    ASSUME NEW x \in Payload("patches"), validatePatch(x) = Ok, NEW b, b = BodyItem("patches", x)
    PROVE  ItemWithin(b) /\ "splits" \notin DOMAIN b
<1>1. /\ ~(x.id = 0 /\ x.import_id = 0) /\ x.import_id <= 36
      /\ checkPayeeMemo(x) = Ok
  <2>1. PICK p : p = IF x.id = 0 /\ x.import_id = 0 THEN "id" ELSE Ok
    OBVIOUS
  <2>2. PICK q : q = checkRuneMax("import_id", x.import_id, importIDMax)
    OBVIOUS
  <2>3. PICK r : r = checkPayeeMemo(x)
    OBVIOUS
  <2>4. errFirst(<<p, q, r>>) = Ok
    BY <2>1, <2>2, <2>3 DEF validatePatch, validateUpdate
  <2>5. errFirst(<<p, q, r>>) = Ok <=> p = Ok /\ q = Ok /\ r = Ok
    BY FirstOfThree
  <2>6. ~(x.id = 0 /\ x.import_id = 0)
    BY <2>1, <2>4, <2>5 DEF Ok
  <2>7. x.import_id <= 36
    BY <2>2, <2>4, <2>5, PatchShape DEF checkRuneMax, importIDMax, Ok
  <2> QED
    BY <2>3, <2>4, <2>5, <2>6, <2>7
<1>2. PICK f : f = Fields(x)
  OBVIOUS
<1>3. DOMAIN f \subseteq {"payee_name", "memo"}
  BY <1>2, FieldsOf, PatchShape
<1>4. Within(f, "payee_name", 200) /\ Within(f, "memo", 500)
  BY <1>1, <1>2, PatchShape, PayeeMemoWithin
<1>5. PICK g : g = Identity(x)
  OBVIOUS
<1>6. /\ DOMAIN g = {"id"} \/ (DOMAIN g = {"import_id"} /\ g["import_id"] <= 36)
  <2>1. CASE x.id # 0
    BY <1>5, <2>1 DEF Identity
  <2>2. CASE x.id = 0
    BY <1>1, <1>5, <2>2 DEF Identity
  <2> QED
    BY <2>1, <2>2
<1>7. b = Joined(f, g)
  BY <1>2, <1>5 DEF BodyItem
<1>8. /\ DOMAIN b = DOMAIN f \cup DOMAIN g
      /\ \A k \in DOMAIN f : b[k] = f[k]
      /\ \A k \in DOMAIN g : b[k] = g[k]
  BY <1>3, <1>6, <1>7 DEF Joined
<1> QED
  BY <1>3, <1>4, <1>6, <1>8 DEF ItemWithin, Within

LEMMA UpdateWithin ==
    ASSUME NEW x \in Payload("update"), validateUpdate(x) = Ok, call.method.check = "update"
    PROVE  ItemWithin(Fields(x)) /\ "splits" \notin DOMAIN Fields(x)
<1>1. ItemWithin(Fields(x))
  BY UpdateShape, PlainWithin DEF validateUpdate
<1>2. "splits" \notin DOMAIN Fields(x)
  BY FieldsOf, UpdateShape
<1> QED
  BY <1>1, <1>2

LEMMA ScheduledWithin ==
    ASSUME RealDay(LocalToday), NEW x \in Payload("scheduled"),
           validateScheduled(x, LocalToday) = Ok, call.method.check = "scheduled"
    PROVE  ItemWithin(Fields(x)) /\ "splits" \notin DOMAIN Fields(x)
<1>1. PICK p : p = IF checkScheduledDate(x.req.date, LocalToday) # "ok" THEN "date" ELSE Ok
  OBVIOUS
<1>2. PICK q : q = checkPayeeMemo(x)
  OBVIOUS
<1>3. errFirst(<<p, q>>) = Ok
  BY <1>1, <1>2 DEF validateScheduled
<1>4. errFirst(<<p, q>>) = Ok <=> p = Ok /\ q = Ok
  BY FirstOfTwo
<1>5. checkScheduledDate(x.req.date, LocalToday) = "ok" /\ checkPayeeMemo(x) = Ok
  BY <1>1, <1>2, <1>3, <1>4 DEF Ok
<1>6. PICK d \in Dated : d = x.req.date
  BY ScheduledShape
<1>7. DayNumber(d) - DayNumber(LocalToday) \in 0..1827
  BY <1>5, <1>6, DateChecked
<1>8. PICK f : f = Fields(x)
  OBVIOUS
<1>9. DOMAIN f \subseteq {"date", "payee_name", "memo"} /\ f["date"] = d /\ "date" \in DOMAIN f
  BY <1>6, <1>8, FieldsOf, ScheduledShape
<1>10. Within(f, "payee_name", 200) /\ Within(f, "memo", 500)
  BY <1>5, <1>8, ScheduledShape, PayeeMemoWithin
<1> QED
  BY <1>7, <1>8, <1>9, <1>10 DEF ItemWithin, Within

LEMMA RescheduleWithin ==
    ASSUME RealDay(LocalToday), NEW x \in Payload("reschedule"),
           validateScheduledUpdate(x, LocalToday) = Ok, call.method.check = "reschedule"
    PROVE  ItemWithin(Fields(x)) /\ "splits" \notin DOMAIN Fields(x)
<1>1. PICK o \in Optional(Dated) : o = x.opt.date
  BY RescheduleShape
<1>2. PICK p : p = IF o.state = "value" /\ checkScheduledDate(o.value, LocalToday) # "ok"
                   THEN "date" ELSE Ok
  OBVIOUS
<1>3. PICK q : q = checkPayeeMemo(x)
  OBVIOUS
<1>4. errFirst(<<p, q>>) = Ok
  BY <1>1, <1>2, <1>3 DEF validateScheduledUpdate
<1>5. errFirst(<<p, q>>) = Ok <=> p = Ok /\ q = Ok
  BY FirstOfTwo
<1>6. /\ o.state = "value" => checkScheduledDate(o.value, LocalToday) = "ok"
      /\ checkPayeeMemo(x) = Ok
  BY <1>2, <1>3, <1>4, <1>5 DEF Ok
<1>7. Encoded(o) # Null => DayNumber(Encoded(o)) - DayNumber(LocalToday) \in 0..1827
  <2> SUFFICES ASSUME o.state = "value"
               PROVE  DayNumber(o.value) - DayNumber(LocalToday) \in 0..1827
    BY DEF Encoded
  <2>1. PICK d \in Dated : d = o.value
    BY DEF Optional
  <2> QED
    BY <1>6, <2>1, DateChecked
<1>8. PICK f : f = Fields(x)
  OBVIOUS
<1>9. /\ DOMAIN f \subseteq {"date", "payee_name", "memo"}
      /\ "date" \in DOMAIN f => f["date"] = Encoded(o)
  BY <1>1, <1>8, FieldsOf, RescheduleShape
<1>10. Within(f, "payee_name", 200) /\ Within(f, "memo", 500)
  BY <1>6, <1>8, RescheduleShape, PayeeMemoWithin
<1> QED
  BY <1>7, <1>8, <1>9, <1>10 DEF ItemWithin, Within

LEMMA NamedWithin ==
    ASSUME NEW kind \in {"payee", "group"}, NEW x \in Payload(kind), NamesTold(kind),
           validateItem(kind, x, LocalToday) = Ok, call.method.check = kind
    PROVE  ItemWithin(Fields(x)) /\ "splits" \notin DOMAIN Fields(x)
<1>1. checkRuneMax("name", x.req.name, IF kind = "payee" THEN 500 ELSE 50) = Ok
  BY DEF validateItem, payeeNameMax, categoryGroupNameMax
<1>2. x.req.name <= IF kind = "payee" THEN 500 ELSE 50
  BY <1>1, NamedShape DEF checkRuneMax, Ok
<1>3. PICK f : f = Fields(x)
  OBVIOUS
<1>4. DOMAIN f = {"name"} /\ f["name"] = x.req.name
  BY <1>3, FieldsOf, NamedShape
<1> QED
  BY <1>2, <1>3, <1>4 DEF ItemWithin, Within, NamesTold

\* An item that is accepted is sent within the bounds.
LEMMA ItemSent ==
    ASSUME RealDay(LocalToday), NEW kind, NEW x \in Payload(kind), NamesTold(kind),
           call.method.check = kind, validateItem(kind, x, LocalToday) = Ok,
           NEW b, b = BodyItem(kind, x)
    PROVE  /\ ItemWithin(b)
           /\ "splits" \in DOMAIN b =>
                  /\ \A j \in DOMAIN b.splits : ItemWithin(b.splits[j])
                  /\ b.splits # <<>> /\ ExactSum(b.splits) \in Milliunits
                        => ExactSum(b.splits) = b.amount
<1>1. kind \in Kinds
  BY PayloadKinds
<1>2. CASE kind = "specs"
  <2>1. validateSpec(x) = Ok
    BY <1>2 DEF validateItem
  <2> QED
    BY <1>2, <2>1, SpecWithin
<1>3. CASE kind = "patches"
  BY <1>3, PatchWithin DEF validateItem
<1>4. CASE kind \notin {"specs", "patches"}
  <2>1. b = Fields(x)
    BY <1>4 DEF BodyItem
  <2>2. CASE kind = "update"
    BY <2>1, <2>2, UpdateWithin DEF validateItem
  <2>3. CASE kind = "scheduled"
    BY <2>1, <2>3, ScheduledWithin DEF validateItem
  <2>4. CASE kind = "reschedule"
    BY <2>1, <2>4, RescheduleWithin DEF validateItem
  <2>5. CASE kind \in {"payee", "group"}
    BY <2>1, <2>5, NamedWithin
  <2> QED
    BY <1>1, <1>4, <2>2, <2>3, <2>4, <2>5 DEF Kinds
<1> QED
  BY <1>2, <1>3, <1>4

-----------------------------------------------------------------------------
(* Paths.                                                                   *)

\* What leaves an empty segment in a path is an empty argument.
LEMMA EmptyArgument ==
    ASSUME NEW c, WellFormed(c.method), HasEmptySegment(Path(c)),
           ~(Takes(c.method, MonthArg) /\ c.month = NoMonth)
    PROVE  <<"">> \in {c.plan, c.id}
<1>1. PICK path \in Seq(Segments) : path = c.method.path
  BY DEF WellFormed
<1>2. PICK n \in Nat : n = Len(path) /\ DOMAIN path = 1..n
  OBVIOUS
<1>3. PICK segments : segments = [i \in DOMAIN path |->
        CASE path[i] = PlanArg  -> c.plan
          [] path[i] = IdArg    -> c.id
          [] path[i] = MonthArg -> MonthSegment(c.month)
          [] OTHER -> <<path[i]>>]
  OBVIOUS
<1>4. Path(c) = JoinPath(segments) /\ DOMAIN segments = 1..n
  BY <1>1, <1>2, <1>3 DEF Path
<1>5. PICK i \in 1..n : JoinPath(segments)[i] = Plain(<<"">>)
  BY <1>4, Zenon DEF HasEmptySegment, JoinPath
<1>6. PICK s : s = segments[i]
  OBVIOUS
<1>7. s = <<"">>
  <2>1. JoinPath(segments)[i].text = s
    BY <1>4, <1>6 DEF JoinPath
  <2>2. Plain(<<"">>).text = <<"">>
    BY Zenon DEF Plain
  <2> QED
    BY <1>5, <2>1, <2>2, Zenon
<1>8. PICK p \in Segments : p = path[i]
  BY <1>2
<1>9. PlanArg # IdArg /\ PlanArg # MonthArg /\ IdArg # MonthArg
  BY DEF PlanArg, IdArg, MonthArg
<1>10. CASE p = PlanArg
  BY <1>2, <1>3, <1>6, <1>7, <1>8, <1>9, <1>10
<1>11. CASE p = IdArg
  BY <1>2, <1>3, <1>6, <1>7, <1>8, <1>9, <1>11
<1>12. CASE p = MonthArg
  <2>1. c.month # NoMonth
    BY <1>1, <1>2, <1>8, <1>12 DEF Takes
  <2>2. s = MonthSegment(c.month)
    BY <1>2, <1>3, <1>6, <1>8, <1>9, <1>12
  <2>3. <<"current">> # <<"">> /\ <<"2024-06-01">> # <<"">>
    OBVIOUS
  <2> QED
    BY <1>7, <2>1, <2>2, <2>3 DEF MonthSegment
<1>13. CASE p \notin {PlanArg, IdArg, MonthArg}
  <2>1. s = <<p>>
    BY <1>2, <1>3, <1>6, <1>8, <1>13
  <2>2. p = ""
    <3>1. <<p>>[1] = p /\ <<"">>[1] = ""
      OBVIOUS
    <3> QED
      BY <1>7, <2>1, <3>1
  <2> QED
    BY <1>8, <2>2, NoneEmpty
<1> QED
  BY <1>10, <1>11, <1>12, <1>13

-----------------------------------------------------------------------------
(* The verdict of a call.                                                   *)

\* The items of a payload are judged one by one, and the first verdict is theirs.
LEMMA ItemsJudged ==
    ASSUME NEW kind, NEW items \in Seq(Payload(kind)), NEW day
    PROVE  /\ validate(kind, items, day) = Ok
                 => \A i \in DOMAIN items : validateItem(kind, items[i], day) = Ok
           /\ validate(kind, items, day) # Ok
                 => \E i \in DOMAIN items : validate(kind, items, day) = validateItem(kind, items[i], day)
<1>1. PICK n \in Nat : n = Len(items) /\ DOMAIN items = 1..n
  OBVIOUS
<1>2. PICK errs : errs = [i \in DOMAIN items |-> validateItem(kind, items[i], day)]
  OBVIOUS
<1>3. DOMAIN errs = 1..n /\ \A i \in 1..n : errs[i] = validateItem(kind, items[i], day)
  BY <1>1, <1>2
<1>4. validate(kind, items, day) = errFirst(errs)
  BY <1>2 DEF validate
<1>5. /\ errFirst(errs) = Ok <=> \A i \in 1..n : errs[i] = Ok
      /\ errFirst(errs) # Ok => \E i \in 1..n : errFirst(errs) = errs[i]
  BY <1>3, FirstError
<1> QED
  BY <1>1, <1>3, <1>4, <1>5

\* A call that is let through has passed all checks, and one that is refused
\* by a sound client has failed one of them.
LEMMA Judged ==
    ASSUME NEW c \in Calls \cup Probes
    PROVE  /\ Refusal(c) = Ok => /\ validate(c.method.check, c.items, LocalToday) = Ok
                                 /\ client.err.reason = Ok
                                 /\ ~HasEmptySegment(Path(c))
           /\ Refusal(c) # Ok /\ client.err.reason = Ok =>
                 \/ Refusal(c) = "month" /\ c.month = NoMonth
                 \/ Refusal(c) = validate(c.method.check, c.items, LocalToday)
                 \/ /\ Refusal(c) = "an id argument is empty" /\ HasEmptySegment(Path(c))
                    /\ ~(Takes(c.method, MonthArg) /\ c.month = NoMonth)
<1>1. PICK a : a = IF Takes(c.method, MonthArg) /\ c.month = NoMonth THEN "month" ELSE Ok
  OBVIOUS
<1>2. PICK b : b = validate(c.method.check, c.items, LocalToday)
  OBVIOUS
<1>3. PICK p : p = Preflight(c, LocalToday)
  OBVIOUS
<1>4. p = errFirst(<<a, b>>)
  BY <1>1, <1>2, <1>3 DEF Preflight
<1>5. PICK s : s = IF HasEmptySegment(Path(c)) THEN "an id argument is empty" ELSE Ok
  OBVIOUS
<1>6. PICK r : r = client.err.reason
  OBVIOUS
<1>7. Refusal(c) = errFirst(<<p, r, s>>)
  BY <1>3, <1>5, <1>6 DEF Refusal
<1>8. /\ errFirst(<<a, b>>) = Ok <=> a = Ok /\ b = Ok
      /\ errFirst(<<a, b>>) \in {Ok, a, b}
  BY FirstOfTwo
<1>9. /\ errFirst(<<p, r, s>>) = Ok <=> p = Ok /\ r = Ok /\ s = Ok
      /\ errFirst(<<p, r, s>>) \in {Ok, p, r, s}
      /\ p # Ok => errFirst(<<p, r, s>>) = p
  BY FirstOfThree
<1>10. CASE Refusal(c) = Ok
  <2>1. ~HasEmptySegment(Path(c))
    BY <1>5, <1>7, <1>9, <1>10 DEF Ok
  <2> QED
    BY <1>2, <1>4, <1>6, <1>7, <1>8, <1>9, <1>10, <2>1
<1>11. CASE Refusal(c) # Ok /\ client.err.reason = Ok /\ p # Ok
  <2>1. Refusal(c) = p /\ p \in {a, b}
    BY <1>4, <1>7, <1>8, <1>9, <1>11
  <2>2. a # Ok => a = "month" /\ c.month = NoMonth
    BY <1>1
  <2> QED
    BY <1>2, <1>11, <2>1, <2>2
<1>12. CASE Refusal(c) # Ok /\ client.err.reason = Ok /\ p = Ok
  <2>1. Refusal(c) = s /\ s # Ok /\ a = Ok
    BY <1>4, <1>6, <1>7, <1>8, <1>9, <1>12
  <2>2. s = "an id argument is empty" /\ HasEmptySegment(Path(c))
    BY <1>5, <2>1
  <2>3. ~(Takes(c.method, MonthArg) /\ c.month = NoMonth)
    BY <1>1, <2>1 DEF Ok
  <2> QED
    BY <1>12, <2>1, <2>2, <2>3
<1> QED
  BY <1>10, <1>11, <1>12

-----------------------------------------------------------------------------
(* Bodies and queries.                                                      *)

\* An optional field is on the wire what its caller chose.
LEMMA FieldChosen ==
    ASSUME NEW x, NEW k \in DOMAIN x.opt, k \notin DOMAIN x.req,
           x.opt[k].state \in {"unset", "null", "value"}
    PROVE  Effect(Fields(x), k) = Chosen(x.opt[k])
<1>1. /\ k \in DOMAIN Fields(x) <=> x.opt[k].state # "unset"
      /\ k \in DOMAIN Fields(x) => Fields(x)[k] = Encoded(x.opt[k])
  BY FieldsOf
<1> QED
  BY <1>1 DEF Effect, Chosen, Encoded

\* The fields of a payload: its optional fields are none of the required ones.
LEMMA PayloadShape ==
    ASSUME NEW kind, NEW x \in Payload(kind)
    PROVE  /\ \A k \in DOMAIN x.opt : /\ k \notin DOMAIN x.req
                                      /\ x.opt[k].state \in {"unset", "null", "value"}
           /\ kind = "specs" => "splits" \in DOMAIN x.req /\ "splits" \notin DOMAIN x.opt
           /\ kind = "patches" => {"id", "import_id"} \cap (DOMAIN x.req \cup DOMAIN x.opt) = {}
<1>1. kind \in Kinds
  BY PayloadKinds
<1>2. \A v : \A o \in Optional(v) : o.state \in {"unset", "null", "value"}
  BY DEF Optional
<1>3. kind \in Kinds \ {"payee", "group"} =>
          x.opt.payee_name.state \in {"unset", "null", "value"}
          /\ x.opt.memo.state \in {"unset", "null", "value"}
  <2>1. kind \in Kinds \ {"payee", "group"} => PayeeMemoShape(x)
    BY <1>1, SpecShape, PatchShape, UpdateShape, ScheduledShape, RescheduleShape DEF Kinds
  <2> QED
    BY <1>2, <2>1 DEF PayeeMemoShape
<1>4. CASE kind = "specs"
  BY <1>2, <1>3, <1>4, SpecShape DEF Kinds
<1>5. CASE kind = "patches"
  BY <1>3, <1>5, PatchShape DEF Kinds
<1>6. CASE kind = "update"
  BY <1>3, <1>6, UpdateShape DEF Kinds
<1>7. CASE kind = "scheduled"
  BY <1>3, <1>7, ScheduledShape DEF Kinds
<1>8. CASE kind = "reschedule"
  BY <1>2, <1>3, <1>8, RescheduleShape DEF Kinds
<1>9. CASE kind \in {"payee", "group"}
  BY <1>9, NamedShape
<1> QED
  BY <1>1, <1>4, <1>5, <1>6, <1>7, <1>8, <1>9 DEF Kinds

\* Nothing that a method adds to an item touches what the caller chose.
LEMMA ItemChosen ==
    ASSUME NEW kind, NEW x \in Payload(kind), NEW b, b = BodyItem(kind, x)
    PROVE  /\ \A k \in DOMAIN x.opt : Effect(b, k) = Chosen(x.opt[k])
           /\ kind = "patches" => ("id" \in DOMAIN b <=> "import_id" \notin DOMAIN b)
<1>1. /\ \A k \in DOMAIN x.opt : /\ k \notin DOMAIN x.req
                                 /\ x.opt[k].state \in {"unset", "null", "value"}
      /\ kind = "specs" => "splits" \in DOMAIN x.req /\ "splits" \notin DOMAIN x.opt
      /\ kind = "patches" => {"id", "import_id"} \cap (DOMAIN x.req \cup DOMAIN x.opt) = {}
  BY PayloadShape
<1>2. PICK f : f = Fields(x)
  OBVIOUS
<1>3. \A k \in DOMAIN x.opt : Effect(f, k) = Chosen(x.opt[k])
  BY <1>1, <1>2, FieldChosen
<1>4. DOMAIN f \subseteq DOMAIN x.req \cup DOMAIN x.opt
  BY <1>2, FieldsOf
<1>5. CASE kind = "patches"
  <2>1. PICK g : g = Identity(x)
    OBVIOUS
  <2>2. DOMAIN g = {"id"} \/ DOMAIN g = {"import_id"}
    <3>1. CASE x.id # 0
      BY <2>1, <3>1 DEF Identity
    <3>2. CASE x.id = 0
      BY <2>1, <3>2 DEF Identity
    <3> QED
      BY <3>1, <3>2
  <2>3. b = Joined(f, g)
    BY <1>2, <1>5, <2>1 DEF BodyItem
  <2>4. DOMAIN b = DOMAIN f \cup DOMAIN g /\ \A k \in DOMAIN f : b[k] = f[k]
    BY <2>3 DEF Joined
  <2>5. ASSUME NEW k \in DOMAIN x.opt PROVE Effect(b, k) = Effect(f, k)
    <3>1. k \notin DOMAIN g
      BY <1>1, <1>5, <2>2
    <3> QED
      BY <2>4, <3>1 DEF Effect
  <2>6. "id" \notin DOMAIN f /\ "import_id" \notin DOMAIN f
    BY <1>1, <1>4, <1>5
  <2>7. "id" \in DOMAIN b <=> "import_id" \notin DOMAIN b
    BY <2>2, <2>4, <2>6
  <2> QED
    BY <1>3, <2>5, <2>7
<1>6. CASE kind = "specs"
  <2>1. PICK legs : legs = [j \in DOMAIN x.req.splits |-> Fields(x.req.splits[j])]
    OBVIOUS
  <2>2. b = [f EXCEPT !.splits = legs]
    BY <1>2, <1>6, <2>1 DEF BodyItem
  <2>3. DOMAIN b = DOMAIN f /\ \A k \in DOMAIN f : k # "splits" => b[k] = f[k]
    BY <2>2
  <2>4. ASSUME NEW k \in DOMAIN x.opt PROVE Effect(b, k) = Effect(f, k)
    <3>1. k # "splits"
      BY <1>1, <1>6
    <3> QED
      BY <2>3, <3>1 DEF Effect
  <2> QED
    BY <1>3, <1>6, <2>4
<1>7. CASE kind # "patches" /\ kind # "specs"
  <2>1. b = f
    BY <1>2, <1>7 DEF BodyItem
  <2> QED
    BY <1>3, <1>7, <2>1
<1> QED
  BY <1>5, <1>6, <1>7

LEMMA AsAskedHolds == ClientInvariant => SentAsAsked
<1> SUFFICES ASSUME ClientInvariant PROVE SentAsAsked
  OBVIOUS
<1> SUFFICES ASSUME Sent, IsMethod PROVE SentAsAsked
  BY DEF SentAsAsked, BodyHasChosenEffect, QueryAsTuned
<1>1. PICK c : c = call
  OBVIOUS
<1>2. c \in Calls \cup Probes /\ wire = Request(c)
  BY <1>1 DEF ClientInvariant, VerdictOfCall, RequestOfCall, Sent
<1>3. wire.query = Query(c) /\ wire.body = Body(c)
  BY <1>2 DEF Request
<1>4. BodyHasChosenEffect
  <2>1. \A i \in DOMAIN c.items : wire.body.items[i] = BodyItem(c.method.check, c.items[i])
    BY <1>3 DEF Body
  <2> QED
    <3>1. c.items \in Seq(Payload(c.method.check))
      BY <1>2, CallsAssumption
    <3>2. \A i \in DOMAIN c.items : c.items[i] \in Payload(c.method.check)
      BY <3>1
    <3> QED
      BY <1>1, <2>1, <3>2, ItemChosen DEF BodyHasChosenEffect
<1>5. QueryAsTuned
  <2>1. CASE c.method.query = "since"
    <3>1. c.since # <<>> => wire.query["last_knowledge_of_server"] = c.since[Len(c.since)]
      BY <1>3, <2>1 DEF Query, applyListOptions, Last
    <3> QED
      BY <1>1, <2>1, <3>1 DEF QueryAsTuned
  <2>2. CASE c.method.query = "filter"
    <3>1. wire.query = encode(c.filter)
      BY <1>3, <2>2 DEF Query
    <3>2. \A k \in DOMAIN c.filter :
             IF c.filter[k] = 0 THEN k \notin DOMAIN wire.query
             ELSE k \in DOMAIN wire.query /\ wire.query[k] = c.filter[k]
      BY <3>1 DEF encode
    <3> QED
      BY <1>1, <2>2, <3>2 DEF QueryAsTuned
  <2>3. CASE c.method.query \notin {"since", "filter"}
    BY <1>1, <2>3 DEF QueryAsTuned
  <2> QED
    BY <2>1, <2>2, <2>3
<1> QED
  BY <1>4, <1>5 DEF SentAsAsked

\* Every request says what its caller chose, whatever the payload: an unset
\* field is not sent, a null one clears, a value sets, and the query is the
\* last cursor and every filter that was set.
THEOREM AsAskedCorrect == Spec => []SentAsAsked
  BY ClientCorrect, AsAskedHolds, PTL

-----------------------------------------------------------------------------
(* Bounds and refusals.                                                     *)

\* What the assumptions say of a call.
LEMMA CallShape ==
    ASSUME NEW c \in Calls \cup Probes, c = call
    PROVE  /\ RealDay(LocalToday) /\ WellFormed(c.method) /\ NamesTold(c.method.check)
           /\ c.items \in Seq(Payload(c.method.check))
           /\ \A i \in DOMAIN c.items : c.items[i] \in Payload(c.method.check)
<1>1. /\ RealDay(LocalToday) /\ c.method \in Methods
      /\ c.items \in Seq(Payload(c.method.check))
  BY CallsAssumption
<1>2. WellFormed(c.method)
  BY <1>1, MethodsWellFormed
<1>3. NamesTold(c.method.check)
  BY <1>2 DEF WellFormed, NamesTold
<1> QED
  BY <1>1, <1>2, <1>3

\* A call that was sent was let through by all of its checks.
LEMMA BoundsHold == ClientInvariant => SentWithinBounds
<1> SUFFICES ASSUME ClientInvariant, Sent, IsMethod, NEW i \in DOMAIN wire.body.items,
                    NEW item, item = wire.body.items[i]
             PROVE  /\ ItemWithin(item)
                    /\ "splits" \in DOMAIN item =>
                           /\ \A j \in DOMAIN item.splits : ItemWithin(item.splits[j])
                           /\ item.splits # <<>> /\ ExactSum(item.splits) \in Milliunits
                                 => ExactSum(item.splits) = item.amount
  BY DEF SentWithinBounds
<1>1. PICK c \in Calls \cup Probes : c = call
  BY DEF ClientInvariant, VerdictOfCall
<1>2. Refusal(c) = Ok /\ wire = Request(c)
  BY <1>1 DEF ClientInvariant, RequestOfCall, Sent
<1>3. PICK kind : kind = c.method.check
  OBVIOUS
<1>4. wire.body.items = [j \in DOMAIN c.items |-> BodyItem(kind, c.items[j])]
  BY <1>2, <1>3 DEF Request, Body
<1>5. i \in DOMAIN c.items /\ item = BodyItem(kind, c.items[i])
  BY <1>4
<1>6. PICK x \in Payload(kind) : x = c.items[i]
  BY <1>1, <1>3, <1>5, CallShape
<1>7. validateItem(kind, x, LocalToday) = Ok
  <2>1. validate(kind, c.items, LocalToday) = Ok
    BY <1>2, <1>3, Judged
  <2>2. c.items \in Seq(Payload(kind))
    BY <1>1, <1>3, CallShape
  <2> QED
    BY <1>5, <1>6, <2>1, <2>2, ItemsJudged
<1>8. RealDay(LocalToday) /\ NamesTold(kind) /\ call.method.check = kind
  BY <1>1, <1>3, CallShape
<1> QED
  BY <1>5, <1>6, <1>7, <1>8, ItemSent

\* Whatever the payload, what is sent is within the bounds the API states, and
\* a split whose legs do not sum to its amount is sent only when their sum is
\* no amount at all: the sum of the code wraps, and one that is an amount never
\* does so unseen.
THEOREM BoundsCorrect == Spec => []SentWithinBounds
  BY ClientCorrect, BoundsHold, PTL

\* A call that was refused by a sound client failed a check of its own.
LEMMA CausesHold == ClientInvariant => RefusedForCause
<1> SUFFICES ASSUME ClientInvariant, IsMethod, Sound, verdict # Ok
             PROVE  CASE verdict = "an id argument is empty" -> <<"">> \in {call.plan, call.id}
                      [] verdict = "month" -> call.month = NoMonth
                      [] OTHER -> \E i \in DOMAIN call.items : Wrong(call.items[i], verdict)
  BY DEF RefusedForCause
<1>1. PICK c \in Calls \cup Probes : c = call
  BY DEF ClientInvariant, VerdictOfCall
<1>2. stage = "ready" /\ verdict = Refusal(c)
  BY <1>1 DEF ClientInvariant, VerdictOfCall
<1>3. client.err.reason = Ok
  <2>1. client.err = NoError
    BY <1>2 DEF ClientInvariant, Built, FirstFailureKept, Sound, NoneFailed, FirstFailed
  <2> QED
    BY <2>1 DEF NoError
<1>4. \/ verdict = "month" /\ c.month = NoMonth
      \/ verdict = validate(c.method.check, c.items, LocalToday)
      \/ /\ verdict = "an id argument is empty" /\ HasEmptySegment(Path(c))
         /\ ~(Takes(c.method, MonthArg) /\ c.month = NoMonth)
  BY <1>2, <1>3, Judged
<1>5. CASE verdict = "month" /\ c.month = NoMonth
  BY <1>1, <1>5
<1>6. CASE /\ verdict = "an id argument is empty" /\ HasEmptySegment(Path(c))
           /\ ~(Takes(c.method, MonthArg) /\ c.month = NoMonth)
  <2>1. <<"">> \in {c.plan, c.id}
    BY <1>1, <1>6, CallShape, EmptyArgument
  <2> QED
    BY <1>1, <1>6, <2>1
<1>7. CASE verdict = validate(c.method.check, c.items, LocalToday)
  <2>1. PICK kind : kind = c.method.check
    OBVIOUS
  <2>2. c.items \in Seq(Payload(kind))
    BY <1>1, <2>1, CallShape
  <2>3. PICK i \in DOMAIN c.items : verdict = validateItem(kind, c.items[i], LocalToday)
    BY <1>7, <2>1, <2>2, ItemsJudged
  <2>4. PICK x \in Payload(kind) : x = c.items[i]
    BY <1>1, <2>1, <2>3, CallShape
  <2>5. verdict \in ItemErrors /\ Wrong(x, verdict)
    BY <1>1, <2>1, <2>3, <2>4, CallShape, ItemRefused
  <2>6. verdict # "an id argument is empty" /\ verdict # "month"
    BY <2>5 DEF ItemErrors
  <2> QED
    BY <1>1, <2>3, <2>4, <2>5, <2>6
<1> QED
  BY <1>4, <1>5, <1>6, <1>7

\* A sound client refuses nothing that the API would take: what a call is
\* refused for is wrong with it, and the verdict names it.
THEOREM CauseCorrect == Spec => []RefusedForCause
  BY ClientCorrect, CausesHold, PTL

-----------------------------------------------------------------------------
(* Routes.                                                                  *)

\* A call that was sent has no empty segment, so its path is left as it is.
LEMMA RouteHolds == ClientInvariant => OwnRoute
<1> SUFFICES ASSUME ClientInvariant, Sent, IsMethod PROVE OwnRoute
  BY DEF OwnRoute
<1>1. /\ call \in Calls \cup Probes /\ Refusal(call) = Ok
      /\ wire = Request(call)
  BY DEF ClientInvariant, VerdictOfCall, RequestOfCall, Sent
<1>2. call.method \in Methods /\ DOMAIN call.filter = transactionFilterParams
  BY <1>1, CallsAssumption
<1>3. ~HasEmptySegment(Path(call))
  BY <1>1, Judged
<1>4. /\ wire.verb = call.method.verb /\ wire.path = Path(call)
      /\ wire.query = Query(call)
  BY <1>1 DEF Request
<1>5. PICK row \in Table :
         /\ Offers(row, call.method) /\ Tunes(row, call.method)
         /\ Served(call.method.verb, Path(call)) = {row}
         /\ Bound(row, Path(call)) =
               [i \in {j \in DOMAIN row.path : row.path[j] = Param} |->
                   CASE call.method.path[i] = PlanArg -> call.plan
                     [] call.method.path[i] = IdArg -> call.id
                     [] OTHER -> MonthSegment(call.month)]
  BY <1>2, <1>3, ServedByItsRow
<1>6. DOMAIN wire.query \subseteq row.query
  BY <1>2, <1>4, <1>5, QueryListed
<1>7. call.method.name \in row.methods
  BY <1>5 DEF Offers
<1> QED
  BY <1>4, <1>5, <1>6, <1>7 DEF OwnRoute

\* Whatever strings stand for ids, with slashes, dots or percent signs, and
\* whatever the options, the request of a method is served by the operation
\* that the contract lists for it, bound to the ids that were given.
THEOREM RouteCorrect == Spec => []OwnRoute
  BY ClientCorrect, RouteHolds, PTL
=============================================================================
