------------------------------- MODULE Startup -------------------------------
(***************************************************************************)
(* From main to a server that serves, and back: the command line, the      *)
(* configuration file (config.c over module IniFile), the plugin, the log, *)
(* the listening socket, and SIGINT, which may come at any moment.         *)
(*                                                                         *)
(* Files, shared objects, sockets and certificates are external: whether   *)
(* opening one succeeds is a free choice.  Strings fit the fields of       *)
(* struct config.                                                          *)
(***************************************************************************)
EXTENDS IniFile

CONSTANTS
  Files,         \* the configuration files there are: sequences of lines
  MaxOptions,    \* bound: options on the command line
  PluginInfos,   \* what the plugins there are call themselves
  MaxSessions    \* bound: sessions while serving

VARIABLES
  pc,        \* where the process is; "stopped" when it is gone
  how,       \* how it ended, "running" before that
  options,   \* how many options were taken
  file, at,  \* the file being read, and how many of its lines are read
  reader,    \* the state of iniparser_load
  config,    \* struct config
  given,     \* the last file that was applied (<<>> if none): history
  plugin,    \* "none", "null" (it has no handlers) or "loaded"
  handler,   \* SIGINT has a handler
  sessions,  \* how many sessions both hash tables hold
  pounds     \* some node of the trie has a "#" array and none of its own

vars == <<pc, how, options, file, at, reader, config, given, plugin, handler,
          sessions, pounds>>

fileVars == <<file, at, reader>>
serviceVars == <<plugin, handler, sessions, pounds>>

PhysicalLine == [text : Seq(Token), more : BOOLEAN, fits : BOOLEAN]

(* The program asks for its keys in lower case. *)
Asked == {"info", "port", "tls", "key", "cert", "log", "log_level", "log_file", "login",
          "anonymously", "control_type", "control", "dir", ":"}

ASSUME StartupAssumption ==
  /\ Files \subseteq Seq(PhysicalLine)
  /\ Asked \cap DOMAIN LowerCase = {}

Entry(section, key) == EntryKey(<<section>>, <<key>>)
DefaultPort == 1883
NullText == <<"NULL">>   \* the default of every string: the text "NULL"

(* config_init. *)
ConfigInit ==
  [port |-> DefaultPort, tls |-> FALSE, key |-> <<>>, cert |-> <<>>,
   log |-> FALSE, logFile |-> <<>>,
   login |-> FALSE, controlType |-> <<>>, dir |-> <<>>]

Init ==
  /\ pc = "options" /\ how = "running" /\ options = 0
  /\ file = <<>> /\ at = 0 /\ reader = Reader
  /\ config = ConfigInit /\ given = <<>>
  /\ plugin = "none" /\ handler = FALSE /\ sessions = 0 /\ pounds = FALSE

Stop(outcome) ==
  /\ pc' = "stopped" /\ how' = outcome
  /\ UNCHANGED <<options, fileVars, config, given, serviceVars>>

-----------------------------------------------------------------------------
(* main: the loop over getopt("hpc:").  -p takes no argument, and atoi is  *)
(* given a NULL pointer.                                                   *)
Option == pc = "options" /\ options < MaxOptions

OptionPort == Option /\ Stop("crash")

OptionHelp == Option /\ Stop("success")   \* -h, or one it does not know

OptionFile ==
  /\ Option
  /\ \/ Stop("failure")   \* the file cannot be opened
     \/ /\ \E f \in Files : file' = f
        /\ pc' = "reading" /\ at' = 0 /\ reader' = Reader /\ given' = <<>>
        /\ options' = options + 1
        /\ UNCHANGED <<how, config, serviceVars>>

ReadLine ==
  /\ pc = "reading" /\ at < Len(file) /\ reader.fits
  /\ reader' = TakeLine(reader, file[at + 1])
  /\ at' = at + 1
  /\ UNCHANGED <<pc, how, options, file, config, given, serviceVars>>

-----------------------------------------------------------------------------
(* config_file_load: the keys in the order they are read, and which of     *)
(* them must have a text.                                                  *)
TlsIn(d) == GetBoolean(d, Entry("info", "tls"), FALSE)
LogIn(d) == GetBoolean(d, Entry("log", "log"), FALSE)
LoginIn(d) == GetBoolean(d, Entry("login", "anonymously"), FALSE)

Number_(section, key) == <<<<Entry(section, key), FALSE>>>>
Text_(section, key) == <<<<Entry(section, key), TRUE>>>>

KeysRead(d) ==
  Number_("info", "port") \o Number_("info", "tls")
  \o (IF TlsIn(d) THEN Text_("info", "key") \o Text_("info", "cert") ELSE <<>>)
  \o Number_("log", "log_level") \o Number_("log", "log")
  \o (IF LogIn(d) THEN Text_("log", "log_file") ELSE <<>>)
  \o Number_("login", "anonymously")
  \o (IF LoginIn(d) THEN Text_("login", "control_type") \o Text_("control", "dir")
      ELSE <<>>)

(* What stops it: a NULL pointer where a section has the name of a key, or *)
(* a text that is missing.                                                 *)
Stops(d, read) ==
  LET value == GetString(d, read[1], NullText)
  IN value = Null \/ (read[2] /\ value = NullText)

FirstStop(d) == SelectInSeq(KeysRead(d), LAMBDA read : Stops(d, read))

(* Strings that are not asked for keep what an earlier file put there.     *)
Configured(d, c) ==
  LET Text(section, key, asked, old) ==
        IF asked THEN GetString(d, Entry(section, key), NullText) ELSE old
  IN [port |-> GetInt(d, Entry("info", "port"), DefaultPort),
      tls |-> TlsIn(d),
      key |-> Text("info", "key", TlsIn(d), c.key),
      cert |-> Text("info", "cert", TlsIn(d), c.cert),
      log |-> LogIn(d),
      logFile |-> Text("log", "log_file", LogIn(d), c.logFile),
      login |-> LoginIn(d),
      controlType |-> Text("login", "control_type", LoginIn(d), c.controlType),
      dir |-> Text("control", "dir", LoginIn(d), c.dir)]

ConfigFileLoad ==
  /\ pc = "reading" /\ (at = Len(file) \/ ~reader.fits)
  /\ IF ~Loaded(reader) THEN Stop("failure")
     ELSE LET d == reader.dict
              stop == FirstStop(d)
          IN IF stop # 0
             THEN Stop(IF GetString(d, KeysRead(d)[stop][1], NullText) = Null
                       THEN "crash" ELSE "failure")
             ELSE /\ config' = Configured(d, config)
                  /\ given' = file
                  /\ pc' = "options" /\ file' = <<>> /\ at' = 0 /\ reader' = Reader
                  /\ UNCHANGED <<how, options, serviceVars>>

-----------------------------------------------------------------------------
(* main, after the options: dauntless_plugin_init if a login is asked for, *)
(* then the log.                                                           *)
PluginInit ==
  /\ pc = "options"
  /\ \/ ~config.login /\ plugin' = plugin /\ pc' = "log"
     \/ config.login /\ plugin' = "null" /\ pc' = "log"
     \/ /\ config.login
        /\ \E info \in PluginInfos : config.controlType = <<info>>
        /\ plugin' = "loaded" /\ pc' = "log"
  /\ UNCHANGED <<how, options, fileVars, config, given, handler, sessions, pounds>>

(* dlopen or dlsym fails, or the plugin has another name. *)
PluginFails == pc = "options" /\ config.login /\ Stop("failure")

OpenLog ==
  /\ pc = "log"
  /\ pc' = "start"
  /\ UNCHANGED <<how, options, fileVars, config, given, serviceVars>>

OpenLogFails == pc = "log" /\ config.log /\ Stop("failure")

(* service_start and service_tls_start. *)
ServiceStart ==
  /\ pc = "start"
  /\ handler' = TRUE
  /\ pc' = "listen"
  /\ UNCHANGED <<how, options, fileVars, config, given, plugin, sessions, pounds>>

ServiceSocketInit ==
  /\ pc = "listen"
  /\ pc' = "serve"
  /\ UNCHANGED <<how, options, fileVars, config, given, serviceVars>>

(* The port is taken, or the certificate or the key is not to be had.      *)
(* service_socket_tls_init then closes a SocketData whose ssl was never    *)
(* set: whatever malloc returned.                                          *)
ServiceSocketInitFails ==
  pc = "listen" /\ (Stop("failure") \/ (config.tls /\ Stop("crash")))

(* Sessions come and go, and so do filters that end in "#" (what a session *)
(* and a filter go through is module Broker's).                            *)
Traffic ==
  /\ pc = "serve"
  /\ sessions' \in 0..MaxSessions /\ pounds' \in BOOLEAN
  /\ UNCHANGED <<pc, how, options, fileVars, config, given, plugin, handler>>

-----------------------------------------------------------------------------
(* SIGINT.  Without TLS the handler frees the sessions of the table by     *)
(* socket, and then walks the table by client id, over the same sessions,  *)
(* and frees them again; and it clears the own array of every node that    *)
(* has a "#" array.                                                        *)
SessionDeleteAll == IF sessions > 0 THEN {"success", "crash"} ELSE {"success"}

(* A mutant that clears what is not there.                                 *)
SessionTopicDeleteAllUnguarded == {"crash", "success"}

SessionTopicDeleteAll == IF pounds THEN {"crash"} ELSE {"success"}

ServerSocketUltimately ==
  IF "crash" \in SessionDeleteAll THEN {"crash"} \cup SessionTopicDeleteAll
  ELSE SessionTopicDeleteAll

Interrupt ==
  /\ pc # "stopped"
  /\ \/ ~handler /\ Stop("killed")
     \/ handler /\ config.tls /\ Stop("success")
     \/ /\ handler /\ ~config.tls
        /\ \E outcome \in ServerSocketUltimately : Stop(outcome)

Next ==
  \/ OptionPort \/ OptionHelp \/ OptionFile \/ ReadLine \/ ConfigFileLoad
  \/ PluginInit \/ PluginFails \/ OpenLog \/ OpenLogFails
  \/ ServiceStart \/ ServiceSocketInit \/ ServiceSocketInitFails
  \/ Traffic \/ Interrupt

Spec == Init /\ [][Next]_vars

-----------------------------------------------------------------------------
(* What a file says, without reading it in order: a logical line ends      *)
(* where a physical one does not end in a backslash, and holds everything  *)
(* since the one before it ended.                                          *)
Ends(lines) == {e \in DOMAIN lines : ~lines[e].more}

Text(lines, e) ==
  LET begin == CHOOSE b \in 1..e : /\ b = 1 \/ b - 1 \in Ends(lines)
                                   /\ Ends(lines) \cap b..(e - 1) = {}
  IN FlattenSeq([i \in 1..(e - begin + 1) |-> lines[begin + i - 1].text])

HeaderLine(text) == text # <<>> /\ ~IsComment(text) /\ IsHeader(text)
PairLine(text) == text # <<>> /\ ~IsComment(text) /\ ~IsHeader(text) /\ IsPair(text)
(* Of the lines that name no section, the files have only "[]".            *)
ASSUME NamelessAssumption ==
  \A lines \in Files : \A e \in Ends(lines) :
    LET text == Text(lines, e)
    IN HeaderLine(text) /\ text[2] = "]" => Len(text) = 2

WellFormed(lines) ==
  /\ \A i \in DOMAIN lines : lines[i].fits
  /\ \A e \in Ends(lines) :
       LET text == Text(lines, e)
       IN text = <<>> \/ IsComment(text) \/ HeaderLine(text) \/ PairLine(text)

Latest(set) == CHOOSE e \in set : \A f \in set : f <= e

(* The section line e is in: the last one named, cut to a letter if a "[]" *)
(* came since.                                                             *)
SectionOf(lines, e) ==
  LET headers == {h \in Ends(lines) : h <= e /\ HeaderLine(Text(lines, h))}
      named == {h \in headers : Len(Text(lines, h)) > 2}
      name == Lower(UpTo(Tail(Text(lines, Latest(named))), {"]"}))
  IN IF named = {} THEN <<>>
     ELSE IF Latest(headers) = Latest(named) THEN name
     ELSE <<FirstLetter(name[1])>>

(* The entries a file makes: on which line, under which key, what. *)
Entries(lines) ==
  {[line |-> e, key |-> SectionOf(lines, e), value |-> Null] :
     e \in {x \in Ends(lines) : HeaderLine(Text(lines, x))}}
  \cup {[line |-> e, key |-> EntryKey(SectionOf(lines, e), Key(Text(lines, e))),
         value |-> Value(Text(lines, e))] :
          e \in {x \in Ends(lines) : PairLine(Text(lines, x))}}

(* The last of some entries for a key. *)
Meant(entries, key) ==
  LET of == {entry \in entries : entry.key = key}
  IN IF of = {} THEN Absent
     ELSE (CHOOSE entry \in of : \A other \in of : other.line <= entry.line).value

-----------------------------------------------------------------------------
(* As far as it is read, a file means what its last assignments say: each  *)
(* key is held once, with the value of the last line that sets it, however *)
(* the dictionary grew and whatever the lines before broke off             *)
(* (dictionary.c:255, iniparser.c:749-811).                                *)
LastAssignmentHolds ==
  pc = "reading" /\ reader.fits =>
    LET entries == Entries(SubSeq(file, 1, at))
        keys == {entry.key : entry \in entries}
    IN /\ reader.dict.n = Cardinality(keys)
       /\ \A key \in keys : DictionaryGet(reader.dict, key, Absent) = Meant(entries, key)

(* A server that serves has read no file with an error in it, and serves   *)
(* what the last one says: its port, with TLS exactly if it says yes to    *)
(* it, with that file's certificate, and behind a plugin of the type it    *)
(* asks for or one without handlers.  What it leaves out is the default,   *)
(* whatever an earlier file said (config.c:15-77).                         *)
ServesAsWritten ==
  pc = "serve" =>
    LET entries == Entries(given)
        Says(section, key) == Meant(entries, Entry(section, key))
        SaysYes(section, key) == LET v == Says(section, key)
                                 IN v \notin {Absent, <<>>} /\ v[1] \in Yes
        port == Says("info", "port")
    IN /\ WellFormed(given)
       /\ config.port = IF port = Absent THEN DefaultPort
                        ELSE IF port # <<>> /\ port[1] \in DOMAIN Number THEN Number[port[1]]
                        ELSE 0
       /\ config.tls = SaysYes("info", "tls")
       /\ config.tls => /\ config.key = Says("info", "key")
                        /\ config.cert = Says("info", "cert")
                        /\ {config.key, config.cert} \cap {Absent, Null, NullText} = {}
       /\ config.log = SaysYes("log", "log")
       /\ config.log => config.logFile = Says("log", "log_file")
       /\ plugin # "none" <=> SaysYes("login", "anonymously")
       /\ plugin = "loaded" =>
            \E info \in PluginInfos : Says("login", "control_type") = <<info>>

(* Starting up and stopping, the process only dies of -p, of a section     *)
(* that has the name of a key, of a failed start with TLS, and of SIGINT   *)
(* while it serves without TLS and there is a session or a node with       *)
(* nothing but a "#" array (main.c:40, config.c:28-60,                     *)
(* service_socket_tls.c:50, session.c:256, filtering.c:506).               *)
DiesOnly ==
  how = "crash" =>
    \/ file = <<>> /\ ~handler /\ options < MaxOptions
    \/ file # <<>> /\ \E entry \in Entries(file) :
                      Len(entry.key) = 3 /\ entry.value = Null
    \/ handler /\ config.tls
    \/ handler /\ (sessions > 0 \/ pounds)
=============================================================================
