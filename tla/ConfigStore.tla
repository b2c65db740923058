----------------------------- MODULE ConfigStore -----------------------------
(***************************************************************************)
(* The configuration of a node: the table of keys over NVS with its checks *)
(* and defaults (config.c), the console commands that change it, the CFG   *)
(* lines of a host on USB (usb_stream.c), and what the boot and the Wi-Fi  *)
(* manager make of what is stored (main.c, led.c, wifi_manager.c).         *)
(*                                                                         *)
(* A string is its length.  A text that somebody types or sends has a      *)
(* length, the number it begins with (0 if it begins with none) and says   *)
(* whether nothing follows that number.                                    *)
(***************************************************************************)
EXTENDS Integers, Sequences

CONSTANTS Touched,    \* bound: the keys that are written in a run
          Texts,      \* bound: the texts
          Lines,      \* bound: the lines of the host
          Flashes,    \* bound: what NVS holds at first
          Writes,     \* bound: commands, lines and resets
          ByteRange, WordRange,   \* values of a u8, of a u32 and of a long
          LineBuffer              \* sizeof(line) of usb_config_rx_task

ASSUME ConfigAssumption ==
    /\ Writes \in Nat
    /\ {ByteRange, WordRange, LineBuffer} \subseteq Nat \ {0}
    /\ Texts \subseteq [len : Nat, num : Int, clean : BOOLEAN]
    /\ \A l \in Lines : /\ l.len \in Nat
                       /\ \A said \in {l.says, l.tail} : said.op = "CFG" =>
                            said.text \in [len : Nat, num : Int, clean : BOOLEAN]

VARIABLES
    careful,    \* the host sends lines that fit and numbers in range
    store,      \* the values in NVS
    clearing,   \* the keys config_clear has yet to erase
    phase,      \* down, booting, reading, up or aborted
    setup,      \* what the Wi-Fi manager read at boot
    tried,      \* the network that on_wifi connects to, with the lengths it uses
    answer,     \* the last answer to the host
    writes      \* commands, lines and resets so far

vars == <<careful, store, clearing, phase, setup, tried, answer, writes>>

----------------------------------------------------------------------------
(* The table *)

SsidKeys == {"wifi1ssid", "wifi2ssid"}
PassKeys == {"wifi1pass", "wifi2pass"}
AddressKeys == {"ethip", "ethnm", "ethgw", "ethdns0", "ethdns1", "ethdns2",
                "wifiip", "wifinm", "wifigw", "wifidns"}
StrKeys == {"nodeid", "mqtturi"} \cup SsidKeys \cup PassKeys \cup AddressKeys

BufferSize == [k \in StrKeys |->
    IF k \in AddressKeys THEN 16 ELSE IF k \in SsidKeys THEN 33 ELSE IF k \in PassKeys THEN 65
    ELSE IF k = "nodeid" THEN 64 ELSE 256]
ByteKeys == {"broadcastonly", "ledbrightness", "wifiopen", "connmode", "sniffmode"}
WordKeys == {"autostartchan", "sniffms", "wifims"}
Keys == StrKeys \cup ByteKeys \cup WordKeys

\* The getters with a default: V2X2MAPxxxx, mqtts://cits1.opentrafficmap.org, ...
Default == [nodeid |-> 11, mqtturi |-> 32, autostartchan |-> 5900,
            broadcastonly |-> 1, ledbrightness |-> 255]

\* cfg_key_to_index.
UsbKeys == {"nodeid", "mqtturi", "wifi1ssid", "wifi1pass", "wifi2ssid", "wifi2pass",
            "wifiip", "wifinm", "wifigw", "wifidns", "wifiopen", "connmode", "sniffmode",
            "sniffms", "wifims"}

Absent == -1

\* What fits the type of a key.
Legal == [k \in Keys |-> IF k \in StrKeys THEN 0 .. (BufferSize[k] - 1)
                         ELSE IF k \in ByteKeys THEN 0 .. (ByteRange - 1)
                         ELSE 0 .. (WordRange - 1)]

\* What the device was programmed with before.
ASSUME FlashAssumption ==
    /\ Touched \subseteq Keys
    /\ \A f \in Flashes : DOMAIN f \subseteq Keys /\ \A k \in DOMAIN f : f[k] \in Legal[k]

----------------------------------------------------------------------------
(* Reading *)

Error == -2

\* Mutant: a key that is not there is an error, default or not.
GetStrict(k, size) == IF store[k] # Absent /\ (k \in StrKeys => store[k] < size)
                      THEN store[k] ELSE Error

\* config_get_str into a buffer of size bytes, config_get_u8, config_get_u32: a
\* string needs room for its end, and a getter falls back to its default
\* whatever the error.
Get(k, size) ==
    IF store[k] # Absent /\ (k \in StrKeys => store[k] < size)
    THEN IF k = "broadcastonly" THEN IF store[k] = 0 THEN 0 ELSE 1 ELSE store[k]
    ELSE IF k \in DOMAIN Default /\ (k \in StrKeys => Default[k] < size)
    THEN Default[k] ELSE Error

\* Who reads a string, into how many bytes: config_get, the MQTT topics behind
\* "its/", everybody else with the buffer of the table.
Readers == {<<"nodeid", 96 - 4>>} \cup {<<k, BufferSize[k]>> : k \in StrKeys}

\* load_str: no string is an empty one.
Load(k) == IF Get(k, BufferSize[k]) = Error THEN 0 ELSE Get(k, BufferSize[k])

\* Mutant: the end of the string is not thought of.
HasTwo(k) == Get(k, 3) > 0

\* has_str reads into four bytes.
Has(k) == Get(k, 4) > 0

Least(a, b) == IF a < b THEN a ELSE b

\* wifi_config_t takes one byte less than ssid[32] and password[64] have room for.
Station(net, ssid, pass) ==
    [net |-> net, ssid |-> Least(Load(ssid), 31), pass |-> Least(Load(pass), 63)]
NoStation(net) == [net |-> net, ssid |-> 0, pass |-> 0]

\* connect_from_nvs.
Choice == IF Has("wifi1ssid") THEN Station("wifi1", "wifi1ssid", "wifi1pass")
          ELSE IF Has("wifi2ssid") THEN Station("wifi2", "wifi2ssid", "wifi2pass")
          ELSE NoStation(IF Get("wifiopen", 0) > 0 THEN "open" ELSE "none")

----------------------------------------------------------------------------
(* Writing *)

Clamp(n) == IF n < -(WordRange \div 2) THEN -(WordRange \div 2)
            ELSE IF n >= WordRange \div 2 THEN WordRange \div 2 - 1 ELSE n

\* Mutant: off by one.
TooLongByOne(k, t) == k \in StrKeys /\ t.len > BufferSize[k]

\* config_set_str, and the same test of cmd_config_set.
TooLong(k, t) == k \in StrKeys /\ t.len >= BufferSize[k]

\* What a CFG line stores: atoi and atol take what they can read, and the
\* cast takes the lowest bits.
Cast(k, t) == IF k \in StrKeys THEN t.len
              ELSE Clamp(t.num) % (IF k \in ByteKeys THEN ByteRange ELSE WordRange)

\* strtoull and its tests; it reads a minus sign as a very large number.
Refused(k, t) == IF k \in StrKeys THEN TooLong(k, t) ELSE ~t.clean \/ t.num \notin Legal[k]

\* nvs_set_...: the new value is there, or an error leaves the old one.
Put(k, v) == store' = [store EXCEPT ![k] = v]

Running == phase \in {"reading", "up"}

\* config_set on the console.
CmdConfigSet(k, t) ==
    /\ phase = "up" /\ clearing = <<>> /\ writes < Writes
    /\ writes' = writes + 1
    /\ ~Refused(k, t) /\ Put(k, IF k \in StrKeys THEN t.len ELSE t.num)
    /\ UNCHANGED <<careful, clearing, phase, setup, tried, answer>>

\* config_clear: the keys in turn, whatever becomes of each.
CmdConfigClear(ks) ==
    /\ phase = "up" /\ clearing = <<>> /\ writes < Writes
    /\ writes' = writes + 1
    /\ clearing' = ks
    /\ UNCHANGED <<careful, store, phase, setup, tried, answer>>

ClearNext ==
    /\ phase = "up" /\ clearing # <<>>
    /\ clearing' = Tail(clearing)
    /\ store' \in {store, [store EXCEPT ![Head(clearing)] = Absent]}
    /\ UNCHANGED <<careful, phase, setup, tried, answer, writes>>

\* usb_config_rx_task: the buffer holds LineBuffer - 1 characters; the next one
\* is dropped with all of them, and what follows is taken for a line.
Obeyed(l) == IF l.len < LineBuffer THEN l.says
             ELSE IF l.len % LineBuffer = 0 THEN [op |-> "other"] ELSE l.tail

\* A number that its key, and a long, can hold.
InRange(k, t) == t.clean /\ t.num \in Legal[k] /\ t.num < WordRange \div 2

\* What the host may send: any line, and a careful host only what fits.
Sendable(l) ==
    careful => /\ l.len < LineBuffer
               /\ l.says.op = "CFG" /\ l.says.key \in ByteKeys \cup WordKeys
                  => InRange(l.says.key, l.says.text)

Reply(l, ok, key) == [to |-> l.says, ok |-> ok, key |-> key, nr |-> writes + 1]

\* Mutant: the answer does not wait for NVS.
HandleCfgUnchecked(l, cmd) ==
    /\ cmd.op = "CFG"
    /\ \/ /\ cmd.key \notin UsbKeys \/ TooLong(cmd.key, cmd.text)
          /\ answer' = Reply(l, FALSE, cmd.key)
          /\ UNCHANGED store
       \/ /\ cmd.key \in UsbKeys /\ ~TooLong(cmd.key, cmd.text)
          /\ Put(cmd.key, Cast(cmd.key, cmd.text)) \/ UNCHANGED store
          /\ answer' = Reply(l, TRUE, cmd.key)
    /\ UNCHANGED <<phase, clearing, setup, tried>>

\* handle_cfg_command, CFG:key=value.
HandleCfg(l, cmd) ==
    /\ cmd.op = "CFG"
    /\ \/ /\ answer' = Reply(l, FALSE, cmd.key)
          /\ UNCHANGED store
       \/ /\ cmd.key \in UsbKeys /\ ~TooLong(cmd.key, cmd.text)
          /\ Put(cmd.key, Cast(cmd.key, cmd.text))
          /\ answer' = Reply(l, TRUE, cmd.key)
    /\ UNCHANGED <<phase, clearing, setup, tried>>

\* What a restart leaves: NVS.
Restarted ==
    /\ phase' = "down" /\ clearing' = <<>>
    /\ tried' = NoStation("unasked")
    /\ UNCHANGED <<store, setup>>

\* REBOOT, and any other line, which gets no answer.  SCAN is in BootScan.
HandleOther(cmd) ==
    /\ cmd.op # "CFG"
    /\ IF cmd.op = "REBOOT" THEN Restarted
       ELSE UNCHANGED <<store, phase, clearing, setup, tried>>
    /\ UNCHANGED answer

Receive(l) ==
    /\ Running /\ writes < Writes /\ Sendable(l)
    /\ writes' = writes + 1
    /\ HandleCfg(l, Obeyed(l)) \/ HandleOther(Obeyed(l))
    /\ UNCHANGED careful

----------------------------------------------------------------------------
(* Boot and use *)

\* reboot on the console, a reset, a power failure.
PowerCut ==
    /\ phase \in {"booting", "reading", "up"} /\ writes < Writes
    /\ writes' = writes + 1
    /\ Restarted
    /\ UNCHANGED <<careful, answer>>

\* config_init: NVS without a free page, or of another version, is erased.
ConfigInit ==
    /\ phase = "down"
    /\ phase' = "booting"
    /\ store' \in {store, [k \in Keys |-> Absent]}
    /\ UNCHANGED <<careful, clearing, setup, tried, answer, writes>>

\* The reads that led_init, console_init and led_update check with ESP_ERROR_CHECK.
BootReads ==
    /\ phase = "booting"
    /\ phase' = IF Error \in {Get("ledbrightness", 0), Get("nodeid", BufferSize["nodeid"])}
                THEN "aborted" ELSE "reading"
    /\ UNCHANGED <<careful, store, clearing, setup, tried, answer, writes>>

Or(k, default) == IF Get(k, 0) = Error THEN default ELSE Get(k, 0)
\* Mutant: a window of any length is taken.
AtLeastNone(n, least, default) == IF n < 0 THEN default ELSE n

AtLeast(n, least, default) == IF n < least THEN default ELSE n

\* wifi_manager_init: the modes and windows of this boot.
ManagerInit ==
    /\ phase = "reading"
    /\ phase' = "up"
    /\ setup' = [manager |-> Or("connmode", 0) # 0,
                 realtime |-> Or("sniffmode", 1) = 0,
                 sniffMs |-> AtLeast(Or("sniffms", 10000), 500, 10000),
                 wifiMs |-> AtLeast(Or("wifims", 2000), 200, 2000),
                 static |-> Load("wifiip") # 0]
    /\ UNCHANGED <<careful, store, clearing, tried, answer, writes>>

\* WIFI_EVENT_STA_START: with every Wi-Fi window, or once (realtime).
StaStart ==
    /\ phase = "up" /\ setup.manager
    /\ setup.realtime => tried.net = "unasked"
    /\ tried' = Choice
    /\ UNCHANGED <<careful, store, clearing, phase, setup, answer, writes>>

----------------------------------------------------------------------------

Init ==
    /\ careful \in BOOLEAN
    /\ \E f \in Flashes :
         store = [k \in Keys |-> IF k \in DOMAIN f THEN f[k] ELSE Absent]
    /\ clearing = <<>> /\ phase = "down" /\ writes = 0
    /\ setup = [manager |-> FALSE, realtime |-> FALSE, sniffMs |-> 10000, wifiMs |-> 2000,
                static |-> FALSE]
    /\ tried = NoStation("unasked")
    /\ answer = [to |-> [op |-> "other"], ok |-> FALSE, key |-> "none", nr |-> 0]

Node == ConfigInit \/ BootReads \/ ManagerInit

Next ==
    \/ Node \/ StaStart \/ ClearNext \/ PowerCut
    \/ \E k \in Touched :
         \/ \E t \in Texts : CmdConfigSet(k, t)
         \/ \E j \in Touched : CmdConfigClear(<<k, j>>)
    \/ \E l \in Lines : Receive(l)

Spec == Init /\ [][Next]_vars

\* The node boots, a command ends, and Wi-Fi windows come again and again
\* (WifiWindows of RadioShare).
FairSpec == Spec /\ WF_vars(Node) /\ WF_vars(ClearNext) /\ WF_vars(StaStart)

----------------------------------------------------------------------------
(* Properties *)

\* Types, and windows that wifi_manager.c can work with.
TypeOK ==
    /\ DOMAIN store = Keys /\ \A k \in Keys : store[k] = Absent \/ store[k] \in Legal[k]
    /\ phase \in {"down", "booting", "reading", "up", "aborted"}
    /\ clearing \in Seq(Touched)
    /\ {careful, setup.manager, setup.realtime, setup.static, answer.ok} \subseteq BOOLEAN
    /\ setup.sniffMs >= 500 /\ setup.wifiMs >= 200
    /\ tried.net \in {"unasked", "none", "wifi1", "wifi2", "open"}
    /\ writes \in 0 .. Writes

\* NVS implements the store: whatever is typed, sent, refused, cut off or lost
\* in a reset, a key holds a value that fits it, and a step changes one key.
Registers == INSTANCE RegisterStore
StoreSpec == Registers!Spec

\* No sequence of commands and resets leaves a node that aborts when it boots
\* (led.c:301 "receives the default value of 255 in led.c, and thus cannot fail").
BootSurvives == phase # "aborted"

\* Whatever was accepted, from either side, all readers can read (config.c:501,
\* the limit of a writer, against the buffers in four other files).
Readable == \A r \in Readers : store[r[1]] # Absent => Get(r[1], r[2]) = store[r[1]]

\* Nothing that can be stored harms a reader.
Inv == TypeOK /\ BootSurvives /\ Readable

\* CFG_OK:key answers the line of a careful host, and the key then holds what
\* the line said (usb_stream.c:70), whatever else is written meanwhile.
AnswerHonest ==
    [][careful /\ answer'.nr # answer.nr /\ answer'.ok =>
         LET said == answer'.to IN
         /\ answer'.key = said.key
         /\ store'[said.key] = IF said.key \in StrKeys THEN said.text.len
                               ELSE said.text.num]_vars

\* The network that connect_from_nvs promises (wifi_manager.c:92 "tries wifi1,
\* wifi2, open").
Promised ==
    LET Net(net, ssid, pass) == [net |-> net, ssid |-> Load(ssid), pass |-> Load(pass)]
    IN IF Load("wifi1ssid") > 0 THEN Net("wifi1", "wifi1ssid", "wifi1pass")
       ELSE IF Load("wifi2ssid") > 0 THEN Net("wifi2", "wifi2ssid", "wifi2pass")
       ELSE NoStation(IF Get("wifiopen", 0) > 0 THEN "open" ELSE "none")

\* SSIDs that has_str sees and passwords that are not cut.
Short == /\ \A k \in SsidKeys : store[k] < 4
         /\ \A k \in PassKeys : store[k] < 64

\* In cycle mode new credentials are used without a reboot, and in the order
\* promised, if they are short.
CredentialsApply ==
    <>[](phase = "up" /\ setup.manager /\ ~setup.realtime /\ Short => tried = Promised)

\* The same for all credentials, whenever a network is chosen.  The code does
\* not keep it: has_str fails for names of four characters and more.
ConnectsInOrder == [][tried' # tried /\ tried'.net # "unasked" => tried' = Promised]_vars
=============================================================================
