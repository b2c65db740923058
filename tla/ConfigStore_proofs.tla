------------------------- MODULE ConfigStore_proofs -------------------------
(***************************************************************************)
(* For any texts, lines, sizes of the number types and contents of NVS     *)
(* that an earlier firmware left: whatever is typed, sent, cut off or lost *)
(* in a reset, each key holds a value that fits it, all readers can read   *)
(* it, the node boots, and CFG_OK tells a careful host the truth.          *)
(*                                                                         *)
(* Inv is inductive.  The argument is about one number: what a writer lets *)
(* through (lemmas TextFits and CastFits) is what Legal allows, and what   *)
(* Legal allows fits the buffer of each reader (lemma Readers).            *)
(***************************************************************************)
EXTENDS ConfigStore, TLAPS

\* The keys are of three kinds, and a string has room for its end in the
\* smallest of the buffers that are read in one go.
LEMMA Sizes ==
  /\ StrKeys \cap ByteKeys = {} /\ StrKeys \cap WordKeys = {} /\ ByteKeys \cap WordKeys = {}
  /\ \A k \in StrKeys : BufferSize[k] \in 16 .. 256
  /\ BufferSize["nodeid"] = 64
  /\ UsbKeys \subseteq Keys
  /\ \A k \in Keys : k \in StrKeys \/ k \in ByteKeys \/ k \in WordKeys
  BY DEF StrKeys, SsidKeys, PassKeys, AddressKeys, BufferSize, Keys, ByteKeys, WordKeys, UsbKeys

\* The ranges of the number types.
LEMMA Ranges ==
  /\ ByteRange \in Nat \ {0} /\ WordRange \in Nat \ {0} /\ LineBuffer \in Nat \ {0}
  /\ WordRange \div 2 \in Nat
  BY ConfigAssumption

\* The legal values of each kind of key.
LEMMA LegalValues ==
  /\ \A k \in StrKeys : \A v : v \in Legal[k] <=> v \in Nat /\ v < BufferSize[k]
  /\ \A k \in ByteKeys : \A v : v \in Legal[k] <=> v \in Nat /\ v < ByteRange
  /\ \A k \in WordKeys : \A v : v \in Legal[k] <=> v \in Nat /\ v < WordRange
<1>1. \A k \in StrKeys : \A v : v \in Legal[k] <=> v \in Nat /\ v < BufferSize[k]
  BY Sizes DEF Legal, Keys
<1>2. \A k \in ByteKeys : \A v : v \in Legal[k] <=> v \in Nat /\ v < ByteRange
  BY Sizes, Ranges DEF Legal, Keys
<1>3. \A k \in WordKeys : \A v : v \in Legal[k] <=> v \in Nat /\ v < WordRange
  BY Sizes, Ranges DEF Legal, Keys
<1> QED
  BY <1>1, <1>2, <1>3

\* What config_set_str, and the tests of config_set on the console, let through.
LEMMA TextFits ==
  ASSUME NEW k \in Keys, NEW t \in [len : Nat, num : Int, clean : BOOLEAN], ~Refused(k, t)
  PROVE  (IF k \in StrKeys THEN t.len ELSE t.num) \in Legal[k]
  BY Sizes, LegalValues DEF Refused, TooLong

\* What a CFG line leaves after atoi, atol and the cast.
LEMMA CastFits ==
  ASSUME NEW k \in Keys, NEW t \in [len : Nat, num : Int, clean : BOOLEAN], ~TooLong(k, t)
  PROVE  Cast(k, t) \in Legal[k]
<1>1. CASE k \in StrKeys
  BY <1>1, Sizes, LegalValues DEF Cast, TooLong
<1>2. CASE k \notin StrKeys
  <2>1. Clamp(t.num) \in Int
    BY Ranges DEF Clamp
  <2>2. CASE k \in ByteKeys
    BY <1>2, <2>1, <2>2, LegalValues, Ranges DEF Cast
  <2>3. CASE k \in WordKeys
    BY <1>2, <2>1, <2>3, Sizes, LegalValues, Ranges DEF Cast
  <2> QED
    BY <1>2, <2>2, <2>3, Sizes
<1> QED
  BY <1>1, <1>2

\* A number in range is stored as it is.
LEMMA CastKeeps ==
  ASSUME NEW k \in Keys, NEW t \in [len : Nat, num : Int, clean : BOOLEAN],
         k \notin StrKeys, InRange(k, t)
  PROVE  Cast(k, t) = t.num
<1>1. t.num \in Nat /\ t.num < WordRange \div 2
  BY Sizes, LegalValues DEF InRange
<1>2. Clamp(t.num) = t.num
  BY <1>1, Ranges DEF Clamp
<1>3. CASE k \in ByteKeys
  BY <1>1, <1>2, <1>3, Sizes, LegalValues, Ranges DEF Cast, InRange
<1>4. CASE k \in WordKeys
  BY <1>1, <1>2, <1>4, Sizes, LegalValues, Ranges DEF Cast, InRange
<1> QED
  BY <1>3, <1>4, Sizes

\* A line of the host, whole or cut.
LEMMA LineObeyed ==
  ASSUME NEW l \in Lines, Obeyed(l).op = "CFG"
  PROVE  Obeyed(l).text \in [len : Nat, num : Int, clean : BOOLEAN]
  BY ConfigAssumption DEF Obeyed
----------------------------------------------------------------------------
(* Reading *)

\* What a getter returns: what is stored, a default, or an error.
LEMMA GetReturns ==
  ASSUME TypeOK, NEW k \in Keys, NEW size \in Nat
  PROVE  /\ Get(k, size) \in Int
         /\ Get(k, size) # Error => Get(k, size) \in Nat
         /\ store[k] # Absent /\ (k \in StrKeys => store[k] < size) => Get(k, size) # Error
<1>1. store[k] = Absent \/ store[k] \in Nat
  BY Sizes, LegalValues DEF TypeOK
<1> QED
  BY <1>1 DEF Get, Absent, Error, Default

\* led.c:301 and console.c: two getters that cannot fail, whatever is stored.
LEMMA BootReadsSucceed ==
  ASSUME TypeOK
  PROVE  Get("ledbrightness", 0) # Error /\ Get("nodeid", BufferSize["nodeid"]) # Error
<1>1. "ledbrightness" \in Keys /\ "ledbrightness" \notin StrKeys /\ "nodeid" \in StrKeys
      /\ "nodeid" \in Keys /\ 64 \in Nat
  BY DEF Keys, ByteKeys, StrKeys, SsidKeys, PassKeys, AddressKeys
<1>2. Get("ledbrightness", 0) # Error
  <2>1. CASE store["ledbrightness"] = Absent
    BY <1>1, <2>1 DEF Get, Default, Error
  <2>2. CASE store["ledbrightness"] # Absent
    BY <1>1, <2>2, GetReturns
  <2> QED
    BY <2>1, <2>2
<1>3. Get("nodeid", 64) # Error
  <2>1. CASE store["nodeid"] = Absent
    BY <1>1, <2>1 DEF Get, Default, Error
  <2>2. CASE store["nodeid"] # Absent
    <3>1. store["nodeid"] < 64
      BY <1>1, <2>2, Sizes, LegalValues DEF TypeOK
    <3> QED
      BY <1>1, <2>2, <3>1, GetReturns
  <2> QED
    BY <2>1, <2>2
<1> QED
  BY <1>2, <1>3, Sizes

\* The limit of the writers against the buffer of each reader.
LEMMA ReadersRead == TypeOK => Readable
<1> SUFFICES ASSUME TypeOK, NEW r \in Readers, store[r[1]] # Absent
             PROVE  Get(r[1], r[2]) = store[r[1]]
  BY DEF Readable
<1> DEFINE k == r[1]
<1>1. k \in StrKeys /\ k \in Keys /\ r[2] >= BufferSize[k] /\ r[2] \in Nat /\ store[k] # Absent
  BY Sizes DEF Readers, Keys, StrKeys
<1> HIDE DEF k
<1>2. store[k] < r[2]
  <2>1. store[k] \in Nat /\ store[k] < BufferSize[k]
    BY <1>1, LegalValues DEF TypeOK
  <2>2. BufferSize[k] \in Nat
    BY <1>1, Sizes
  <2> QED
    BY <1>1, <2>1, <2>2
<1>3. k # "broadcastonly"
  BY <1>1, Sizes DEF ByteKeys
<1>4. Get(k, r[2]) = store[k]
  BY <1>1, <1>2, <1>3 DEF Get
<1> QED
  BY <1>4 DEF k

\* The windows that wifi_manager_init takes.
LEMMA WindowsLongEnough ==
  ASSUME TypeOK
  PROVE  AtLeast(Or("sniffms", 10000), 500, 10000) >= 500
         /\ AtLeast(Or("wifims", 2000), 200, 2000) >= 200
<1>1. Get("sniffms", 0) \in Int /\ Get("wifims", 0) \in Int
  BY GetReturns DEF Keys, WordKeys
<1> QED
  BY <1>1 DEF AtLeast, Or

----------------------------------------------------------------------------
(* The invariant *)

\* The first boot, with whatever NVS holds.
LEMMA InitInv == Init => Inv
<1> SUFFICES ASSUME Init PROVE Inv
  OBVIOUS
<1>1. DOMAIN store = Keys /\ \A k \in Keys : store[k] = Absent \/ store[k] \in Legal[k]
  BY FlashAssumption DEF Init
<1>2. TypeOK
  BY <1>1, ConfigAssumption DEF Init, TypeOK, NoStation
<1> QED
  BY <1>2, ReadersRead DEF Inv, BootSurvives, Init

\* What the store looks like after one key is written or erased.
LEMMA OneKeyKeeps ==
  ASSUME TypeOK, NEW k \in Keys, NEW v, v = Absent \/ v \in Legal[k],
         store' = [store EXCEPT ![k] = v]
  PROVE  DOMAIN store' = Keys /\ \A j \in Keys : store'[j] = Absent \/ store'[j] \in Legal[j]
  BY DEF TypeOK

\* A line of the host.
LEMMA ReceiveKeeps == ASSUME Inv, NEW l \in Lines, Receive(l) PROVE TypeOK' /\ BootSurvives'
<1>1. writes' \in 0 .. Writes /\ careful' = careful
  BY ConfigAssumption DEF Receive, Inv, TypeOK
<1>2. CASE HandleCfg(l, Obeyed(l))
  <2>1. Obeyed(l).text \in [len : Nat, num : Int, clean : BOOLEAN]
    BY <1>2, LineObeyed DEF HandleCfg
  <2>2. DOMAIN store' = Keys /\ \A k \in Keys : store'[k] = Absent \/ store'[k] \in Legal[k]
    <3>1. CASE UNCHANGED store
      BY <3>1 DEF Inv, TypeOK
    <3>2. CASE /\ Obeyed(l).key \in UsbKeys /\ ~TooLong(Obeyed(l).key, Obeyed(l).text)
               /\ Put(Obeyed(l).key, Cast(Obeyed(l).key, Obeyed(l).text))
      BY <2>1, <3>2, Sizes, CastFits, OneKeyKeeps DEF Put, Inv
    <3> QED
      BY <1>2, <3>1, <3>2 DEF HandleCfg
  <2>3. PICK ok \in BOOLEAN : answer' = Reply(l, ok, Obeyed(l).key)
    BY <1>2 DEF HandleCfg
  <2>4. answer'.ok \in BOOLEAN
    BY <2>3 DEF Reply
  <2> QED
    BY <1>1, <1>2, <2>2, <2>4 DEF HandleCfg, Inv, TypeOK, BootSurvives
<1>3. CASE HandleOther(Obeyed(l))
  <2>1. CASE Obeyed(l).op = "REBOOT"
    BY <1>1, <1>3, <2>1 DEF HandleOther, Restarted, NoStation, Inv, TypeOK, BootSurvives
  <2>2. CASE Obeyed(l).op # "REBOOT"
    BY <1>1, <1>3, <2>2 DEF HandleOther, Inv, TypeOK, BootSurvives
  <2> QED
    BY <2>1, <2>2
<1> QED
  BY <1>2, <1>3 DEF Receive

\* The steps of the boot.
LEMMA NodeKeeps == ASSUME Inv, Node PROVE TypeOK' /\ BootSurvives'
<1>1. CASE ConfigInit
  BY <1>1 DEF ConfigInit, Inv, TypeOK, BootSurvives
<1>2. CASE BootReads
  BY <1>2, BootReadsSucceed DEF BootReads, Inv, TypeOK, BootSurvives
<1>3. CASE ManagerInit
  BY <1>3, WindowsLongEnough DEF ManagerInit, Inv, TypeOK, BootSurvives
<1> QED
  BY <1>1, <1>2, <1>3 DEF Node

\* Every step preserves the invariant.
LEMMA StepInv == Inv /\ [Next]_vars => Inv'
<1> SUFFICES ASSUME Inv, [Next]_vars PROVE TypeOK' /\ BootSurvives'
  <2>1. TypeOK' => Readable'
    BY ReadersRead, PTL
  <2> QED
    BY <2>1 DEF Inv
<1>1. CASE Node
  BY <1>1, NodeKeeps
<1>2. CASE StaStart
  BY <1>2 DEF StaStart, Choice, Station, NoStation, Inv, TypeOK, BootSurvives
<1>3. CASE ClearNext
  <2>1. Head(clearing) \in Keys /\ Tail(clearing) \in Seq(Touched)
    BY <1>3, FlashAssumption DEF ClearNext, Inv, TypeOK
  <2>2. DOMAIN store' = Keys /\ \A k \in Keys : store'[k] = Absent \/ store'[k] \in Legal[k]
    BY <1>3, <2>1, OneKeyKeeps DEF ClearNext, Inv, TypeOK
  <2> QED
    BY <1>3, <2>1, <2>2 DEF ClearNext, Inv, TypeOK, BootSurvives
<1>4. CASE PowerCut
  BY <1>4, ConfigAssumption DEF PowerCut, Restarted, NoStation, Inv, TypeOK, BootSurvives
<1>5. ASSUME NEW k \in Touched, NEW t \in Texts, CmdConfigSet(k, t) PROVE TypeOK' /\ BootSurvives'
  <2>1. k \in Keys /\ t \in [len : Nat, num : Int, clean : BOOLEAN]
    BY FlashAssumption, ConfigAssumption
  <2>2. DOMAIN store' = Keys /\ \A j \in Keys : store'[j] = Absent \/ store'[j] \in Legal[j]
    BY <1>5, <2>1, TextFits, OneKeyKeeps DEF CmdConfigSet, Put, Inv
  <2> QED
    BY <1>5, <2>2, ConfigAssumption DEF CmdConfigSet, Inv, TypeOK, BootSurvives
<1>6. ASSUME NEW k \in Touched, NEW j \in Touched, CmdConfigClear(<<k, j>>)
      PROVE  TypeOK' /\ BootSurvives'
  BY <1>6, ConfigAssumption DEF CmdConfigClear, Inv, TypeOK, BootSurvives
<1>7. CASE \E l \in Lines : Receive(l)
  BY <1>7, ReceiveKeeps
<1>8. CASE UNCHANGED vars
  BY <1>8 DEF vars, Inv, TypeOK, BootSurvives
<1> QED
  BY <1>1, <1>2, <1>3, <1>4, <1>5, <1>6, <1>7, <1>8 DEF Next

\* Nothing that is typed, sent or left by an earlier boot harms a reader or
\* keeps the node from booting.
THEOREM Invariance == Spec => []Inv
  BY InitInv, StepInv, PTL DEF Spec
----------------------------------------------------------------------------
(* What the node implements *)

\* Writing one key, or erasing it, is a step of the abstract store.
LEMMA PutWrites ==
  ASSUME TypeOK, NEW k \in Keys, NEW v \in Legal[k], Put(k, v)
  PROVE  Registers!Next
<1>1. store'[k] = v
  BY DEF Put, TypeOK
<1> QED
  BY <1>1 DEF Put, Registers!Next, Registers!Write

\* Every step changes one key, to a legal value, or loses all.
LEMMA StepRegisters == Inv /\ [Next]_vars => [Registers!Next]_store
<1> SUFFICES ASSUME Inv, Next, store' # store PROVE Registers!Next
  BY DEF vars
<1>1. CASE Node
  BY <1>1 DEF Node, ConfigInit, BootReads, ManagerInit, Registers!Next, Registers!Lose
<1>2. CASE StaStart \/ PowerCut
  BY <1>2 DEF StaStart, PowerCut, Restarted
<1>3. CASE ClearNext
  <2>1. Head(clearing) \in Keys
    BY <1>3, FlashAssumption DEF ClearNext, Inv, TypeOK
  <2> QED
    BY <1>3, <2>1 DEF ClearNext, Registers!Next, Registers!Erase
<1>4. ASSUME NEW k \in Touched, NEW t \in Texts, CmdConfigSet(k, t) PROVE Registers!Next
  BY <1>4, FlashAssumption, ConfigAssumption, TextFits, PutWrites DEF CmdConfigSet, Inv
<1>5. ASSUME NEW k \in Touched, NEW j \in Touched, CmdConfigClear(<<k, j>>) PROVE Registers!Next
  BY <1>5 DEF CmdConfigClear
<1>6. ASSUME NEW l \in Lines, Receive(l) PROVE Registers!Next
  <2>1. HandleCfg(l, Obeyed(l))
    BY <1>6 DEF Receive, HandleOther, Restarted
  <2>2. /\ Obeyed(l).key \in UsbKeys /\ ~TooLong(Obeyed(l).key, Obeyed(l).text)
        /\ Put(Obeyed(l).key, Cast(Obeyed(l).key, Obeyed(l).text))
        /\ Obeyed(l).text \in [len : Nat, num : Int, clean : BOOLEAN]
    BY <2>1, LineObeyed DEF HandleCfg
  <2> QED
    BY <2>2, Sizes, CastFits, PutWrites DEF Inv
<1> QED
  BY <1>1, <1>2, <1>3, <1>4, <1>5, <1>6 DEF Next

\* NVS behind config.c is the store that the rest of the firmware relies on:
\* legal values, one key at a time.
THEOREM ImplementsRegisters == Spec => StoreSpec
<1>1. Inv => Registers!Init
  BY DEF Inv, TypeOK, Registers!Init
<1> QED
  BY <1>1, InitInv, StepRegisters, Invariance, PTL DEF Spec, StoreSpec, Registers!Spec

\* The answer to a line is a step of handle_cfg_command.
LEMMA AnswerStep ==
  ASSUME Inv, Next, careful, answer'.nr # answer.nr, answer'.ok
  PROVE  /\ answer'.key = answer'.to.key
         /\ store'[answer'.to.key] = IF answer'.to.key \in StrKeys THEN answer'.to.text.len
                                    ELSE answer'.to.text.num
<1>0. answer' # answer
  OBVIOUS
<1>1. PICK l \in Lines : Receive(l)
  <2>1. ~Node /\ ~StaStart /\ ~ClearNext /\ ~PowerCut
    BY <1>0 DEF Node, ConfigInit, BootReads, ManagerInit, StaStart, ClearNext, PowerCut
  <2>2. /\ \A k \in Touched, t \in Texts : ~CmdConfigSet(k, t)
        /\ \A k \in Touched, j \in Touched : ~CmdConfigClear(<<k, j>>)
    BY <1>0 DEF CmdConfigSet, CmdConfigClear
  <2> QED
    BY <2>1, <2>2 DEF Next
<1>2. HandleCfg(l, Obeyed(l))
  BY <1>1 DEF Receive, HandleOther
<1>3. Obeyed(l) = l.says /\ l.says.op = "CFG"
  BY <1>1, <1>2 DEF Receive, Sendable, HandleCfg, Obeyed
<1> DEFINE k == l.says.key
           t == l.says.text
<1>4. /\ k \in UsbKeys /\ ~TooLong(k, t) /\ Put(k, Cast(k, t))
      /\ answer' = Reply(l, TRUE, k)
  BY <1>2, <1>3 DEF HandleCfg, Reply
<1>5. k \in Keys /\ t \in [len : Nat, num : Int, clean : BOOLEAN]
  BY <1>2, <1>3, <1>4, Sizes, LineObeyed
<1>6. k \notin StrKeys => InRange(k, t)
  BY <1>1, <1>3, <1>5, Sizes DEF Receive, Sendable
<1>7. answer'.to = l.says /\ answer'.key = k
  BY <1>4 DEF Reply
<1> HIDE DEF k, t
<1>8. store'[k] = Cast(k, t)
  BY <1>4, <1>5 DEF Put, Inv, TypeOK
<1>9. Cast(k, t) = IF k \in StrKeys THEN t.len ELSE t.num
  BY <1>5, <1>6, CastKeeps DEF Cast
<1> QED
  BY <1>7, <1>8, <1>9 DEF k, t

\* CFG_OK is the truth for a host that sends lines and numbers that fit.
THEOREM Answers == Spec => AnswerHonest
<1>1. Inv /\ [Next]_vars =>
        [careful /\ answer'.nr # answer.nr /\ answer'.ok =>
           LET said == answer'.to IN
           /\ answer'.key = said.key
           /\ store'[said.key] = IF said.key \in StrKeys THEN said.text.len
                                 ELSE said.text.num]_vars
  BY AnswerStep
<1> QED
  BY <1>1, Invariance, PTL DEF Spec, AnswerHonest
=============================================================================
