-------------------------------- MODULE Startup --------------------------------
(***************************************************************************)
(* Main.cpp, Utilities.cpp and Serialization.cpp up to the choice of a     *)
(* mode: the configuration, the Huffman code, the map of key pairs, the    *)
(* key store and the wallet are loaded one after the other; the map is     *)
(* generated and written by the first start that finds none.  Several      *)
(* programs may start on the same files, die at any point and start again, *)
(* while the user edits or removes files.                                  *)
(***************************************************************************)
EXTENDS Integers, FiniteSets

CONSTANTS
    Program,    \* programs that share the files
    SuffixBits, \* lengths of suffixes that the configuration may ask for
    Chunks,     \* writes that a map of key pairs takes
    MaxEdits,   \* times that the user changes the files
    MaxStarts,  \* times that programs are started
    Daemon      \* what becomes of getinfo: "info", "exception", "throw", "abort"

ASSUME StartupAssumption ==
    /\ IsFiniteSet(Program)
    /\ SuffixBits \subseteq Nat \ {0}
    /\ Chunks \in Nat \ {0} /\ MaxEdits \in Nat /\ MaxStarts \in Nat
    /\ Daemon \subseteq {"info", "exception", "throw", "abort"}

VARIABLES
    bms_conf,       \* SuffixBits in the file, 0 when it is empty
    keypair_map,    \* the file: who wrote each chunk, and for what length
    pc,
    Config,         \* SuffixBits as loaded, 0 when nothing is
    HuffCode,       \* whether it is loaded
    KeyMap,         \* who made the pairs, and the length of the suffixes that have one
    Store,          \* the same of the keys in the key store
    Wallet,         \* whether it has credentials
    written,        \* chunks that have been written
    died,           \* whether a program died with the file open
    raced,          \* whether a program opened the file that another one had made meanwhile
    edits, starts

files == <<bms_conf, keypair_map>>
loaded == <<Config, HuffCode, KeyMap, Store, Wallet>>
vars == <<bms_conf, keypair_map, pc, Config, HuffCode, KeyMap, Store, Wallet, written, died,
          raced, edits, starts>>

--------------------------------------------------------------------------------
(* The file with the map of key pairs. *)

Absent == [exists |-> FALSE, chunks |-> [c \in 1 .. Chunks |-> <<>>]]
Opened == [exists |-> TRUE, chunks |-> [c \in 1 .. Chunks |-> <<>>]]

NoMap == <<>>
\* All of it, by one writer: what an archive reads back.
Whole(file) ==
    file.exists /\ \E map \in Program \X SuffixBits : \A c \in 1 .. Chunks : file.chunks[c] = map
MapOf(p, file) == file.chunks[1]

Unreadable(file) == ~ Whole(file)

Writing(p) == pc[p] = "write"

--------------------------------------------------------------------------------
(* Loading, in the order of main. *)

\* Nothing is loaded in a program that has not started, or has unloaded all.
Unloaded(p) ==
    /\ Config' = [Config EXCEPT ![p] = 0]
    /\ HuffCode' = [HuffCode EXCEPT ![p] = FALSE]
    /\ KeyMap' = [KeyMap EXCEPT ![p] = NoMap]
    /\ Store' = [Store EXCEPT ![p] = NoMap]
    /\ Wallet' = [Wallet EXCEPT ![p] = FALSE]

Init ==
    /\ bms_conf \in SuffixBits \cup {0}
    /\ keypair_map = Absent
    /\ pc = [p \in Program |-> "stopped"]
    /\ Config = [p \in Program |-> 0]
    /\ HuffCode = [p \in Program |-> FALSE]
    /\ KeyMap = [p \in Program |-> NoMap]
    /\ Store = [p \in Program |-> NoMap]
    /\ Wallet = [p \in Program |-> FALSE]
    /\ written = [p \in Program |-> 0]
    /\ died = FALSE /\ raced = FALSE
    /\ edits = 0 /\ starts = 0

Goto(p, where) == pc' = [pc EXCEPT ![p] = where]
history == <<died, raced, edits, starts>>

Start(p) ==
    /\ pc[p] = "stopped" /\ starts < MaxStarts
    /\ starts' = starts + 1
    /\ Goto(p, "config")
    /\ UNCHANGED <<files, loaded, written, died, raced, edits>>

\* A file without options leaves the configuration empty, and nothing notices.
LoadConfigFile(p) ==
    /\ pc[p] = "config"
    /\ Config' = [Config EXCEPT ![p] = IF @ # 0 THEN @ ELSE bms_conf]
    /\ Goto(p, "huffman")
    /\ UNCHANGED <<files, HuffCode, KeyMap, Store, Wallet, written, history>>

LoadHuffmanCode(p) ==
    /\ pc[p] = "huffman"
    /\ HuffCode' = [HuffCode EXCEPT ![p] = TRUE]
    /\ Goto(p, "keymap")
    /\ UNCHANGED <<files, Config, KeyMap, Store, Wallet, written, history>>

\* Without a configuration, or with a map, there is nothing to do.
SkipKeypairMap(p) ==
    /\ pc[p] = "keymap" /\ (Config[p] = 0 \/ KeyMap[p] # NoMap)
    /\ Goto(p, "keystore")
    /\ UNCHANGED <<files, loaded, written, history>>

\* The archive of a file that is not whole throws.
DeserializeKeypairMap(p) ==
    /\ pc[p] = "keymap" /\ Config[p] # 0 /\ KeyMap[p] = NoMap
    /\ keypair_map.exists /\ Whole(keypair_map)
    /\ KeyMap' = [KeyMap EXCEPT ![p] = MapOf(p, keypair_map)]
    /\ Goto(p, "keystore")
    /\ UNCHANGED <<files, Config, HuffCode, Store, Wallet, written, history>>

DeserializeThrows(p) ==
    /\ pc[p] = "keymap" /\ Config[p] # 0 /\ KeyMap[p] = NoMap
    /\ keypair_map.exists /\ Unreadable(keypair_map)
    /\ Goto(p, "throw")
    /\ UNCHANGED <<files, loaded, written, history>>

NewMap(p) == <<p, Config[p]>>
\* Key pairs are made until every suffix has one; the file has been looked for
\* before.
GenerateKeypairMap(p) ==
    /\ pc[p] = "keymap" /\ Config[p] # 0 /\ KeyMap[p] = NoMap
    /\ ~ keypair_map.exists
    /\ KeyMap' = [KeyMap EXCEPT ![p] = NewMap(p)]
    /\ Goto(p, "open")
    /\ UNCHANGED <<files, Config, HuffCode, Store, Wallet, written, history>>

\* SerializeKeypairMap: what the file had is gone when it is opened, and a stream
\* writes from where it is itself.
OpenKeypairMap(p) ==
    /\ pc[p] = "open"
    /\ keypair_map' = Opened
    /\ written' = [written EXCEPT ![p] = 0]
    /\ raced' = (raced \/ keypair_map.exists)
    /\ Goto(p, "write")
    /\ UNCHANGED <<bms_conf, loaded, died, edits, starts>>

More(p) == written[p] < Chunks
WriteChunk(p) ==
    /\ Writing(p) /\ More(p)
    /\ written' = [written EXCEPT ![p] = @ + 1]
    /\ keypair_map' = IF keypair_map.exists
                      THEN [keypair_map EXCEPT !.chunks[written[p] + 1] = KeyMap[p]]
                      ELSE keypair_map
    /\ UNCHANGED <<bms_conf, pc, loaded, history>>

\* A slip: it is closed with a chunk to go.
DoneEarly(p) == written[p] + 1 >= Chunks
Done(p) == written[p] = Chunks
CloseKeypairMap(p) ==
    /\ Writing(p) /\ Done(p)
    /\ Goto(p, "keystore")
    /\ UNCHANGED <<files, loaded, written, history>>

LoadKeystore(p) ==
    /\ pc[p] = "keystore"
    /\ Store' = [Store EXCEPT ![p] = IF @ # NoMap THEN @ ELSE KeyMap[p]]
    /\ Goto(p, "wallet")
    /\ UNCHANGED <<files, Config, HuffCode, KeyMap, Wallet, written, history>>

LoadWallet(p) ==
    /\ pc[p] = "wallet"
    /\ Wallet' = [Wallet EXCEPT ![p] = Config[p] # 0 \/ @]
    /\ Goto(p, "daemon")
    /\ UNCHANGED <<files, Config, HuffCode, KeyMap, Store, written, history>>

Running(p, answer) == Wallet[p] /\ answer = "info"
\* Only what is a BitcoinException means that the daemon is not running; all else
\* goes up to main, or ends the program where it is.
IsBitcoinRunning(p) ==
    /\ pc[p] = "daemon"
    /\ \E answer \in Daemon :
         Goto(p, CASE Running(p, answer) -> "mode"
                   [] Wallet[p] /\ answer = "abort" -> "stopped"
                   [] OTHER -> "throw")
    /\ IF pc'[p] = "stopped" THEN Unloaded(p) ELSE UNCHANGED loaded
    /\ UNCHANGED <<files, written, history>>

\* The handler of main, and its last lines.
Unload(p) ==
    /\ pc[p] \in {"throw", "mode"}
    /\ Unloaded(p)
    /\ Goto(p, "stopped")
    /\ UNCHANGED <<files, written, history>>

Load(p) ==
    \/ LoadConfigFile(p) \/ LoadHuffmanCode(p)
    \/ SkipKeypairMap(p) \/ DeserializeKeypairMap(p) \/ DeserializeThrows(p)
    \/ GenerateKeypairMap(p) \/ OpenKeypairMap(p) \/ WriteChunk(p) \/ CloseKeypairMap(p)
    \/ LoadKeystore(p) \/ LoadWallet(p) \/ IsBitcoinRunning(p)

--------------------------------------------------------------------------------
(* What the program does not control. *)

\* A program dies wherever it is, and what it has not written is not written.
Die(p) ==
    /\ pc[p] # "stopped"
    /\ died' = (died \/ Writing(p))
    /\ Unloaded(p)
    /\ Goto(p, "stopped")
    /\ UNCHANGED <<files, written, raced, edits, starts>>

\* The user changes the configuration, or removes the map while nobody writes it.
Edit ==
    /\ edits < MaxEdits
    /\ edits' = edits + 1
    /\ bms_conf' \in SuffixBits \cup {0}
    /\ UNCHANGED <<keypair_map, pc, loaded, written, died, raced, starts>>

RemoveMap ==
    /\ edits < MaxEdits /\ keypair_map.exists
    /\ \A p \in Program : ~ Writing(p)
    /\ edits' = edits + 1
    /\ keypair_map' = Absent
    /\ died' = FALSE /\ raced' = FALSE
    /\ UNCHANGED <<bms_conf, pc, loaded, written, starts>>

Next ==
    \/ \E p \in Program : Start(p) \/ Load(p) \/ Unload(p) \/ Die(p)
    \/ Edit \/ RemoveMap

\* A program that is not stopped goes on; the user decides the mode at leisure.
Spec == Init /\ [][Next]_vars /\ \A p \in Program : WF_vars(Load(p)) /\ WF_vars(Unload(p))

--------------------------------------------------------------------------------
(* Properties. *)

Places == {"stopped", "config", "huffman", "keymap", "open", "write", "keystore", "wallet",
           "daemon", "mode", "throw"}

TypeOK ==
    /\ bms_conf \in SuffixBits \cup {0}
    /\ keypair_map \in [exists : BOOLEAN,
                        chunks : [1 .. Chunks -> {NoMap} \cup (Program \X SuffixBits)]]
    /\ pc \in [Program -> Places]
    /\ Config \in [Program -> SuffixBits \cup {0}]
    /\ HuffCode \in [Program -> BOOLEAN]
    /\ KeyMap \in [Program -> {NoMap} \cup (Program \X SuffixBits)]
    /\ Store \in [Program -> {NoMap} \cup (Program \X SuffixBits)]
    /\ Wallet \in [Program -> BOOLEAN]
    /\ written \in [Program -> 0 .. Chunks]
    /\ died \in BOOLEAN /\ raced \in BOOLEAN
    /\ edits \in 0 .. MaxEdits /\ starts \in 0 .. MaxStarts

\* Every step that finds nothing to load returns without a word, and still the modes
\* are only reached with all five loaded, and the same keys in the store as in the map
\* (main, Load*, IsBitcoinRunning).
ReadyHasAll ==
    \A p \in Program :
      pc[p] = "mode" =>
        /\ Config[p] # 0 /\ HuffCode[p] /\ Wallet[p]
        /\ KeyMap[p] # NoMap /\ Store[p] = KeyMap[p]

\* The map has all the suffixes that the configuration asks for, unless the user has
\* changed the configuration since it was written (KeyMap.at, GenerateKeypairMap).
MapFits ==
    edits = 0 => \A p \in Program : pc[p] = "mode" => KeyMap[p][2] = Config[p]

\* A file that later starts cannot load is there only while somebody writes it, or
\* after a death or a race while it was written (SerializeKeypairMap).
DamageHasCause ==
    keypair_map.exists /\ ~ Whole(keypair_map) =>
      died \/ raced \/ \E p \in Program : Writing(p)

\* The keys of a program that has started are those in the file, so that the next one
\* finds the keys of what this one pays to: none other are in the store of any, unless the
\* user has interfered or two first starts met, each finding no file and making its own
\* (GenerateKeypairMap looks for the file long before SerializeKeypairMap opens it).
KeysSaved ==
    edits = 0 /\ ~ raced =>
      \A p \in Program :
        pc[p] = "mode" => keypair_map.exists /\ \A c \in 1 .. Chunks : keypair_map.chunks[c] = Store[p]

\* All of these, of a program that starts.
StartsHold == TypeOK /\ ReadyHasAll /\ MapFits /\ DamageHasCause /\ KeysSaved

\* Every start comes to the choice of a mode or to an end, whatever is in the files.
StartsEnd == \A p \in Program : pc[p] = "config" ~> pc[p] \in {"mode", "stopped"}
================================================================================
