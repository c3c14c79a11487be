----------------------------- MODULE MCStartup -----------------------------
(* Files: a complete one with every combination of the three switches, and *)
(* what becomes of it when one of its lines is missing, or one more line   *)
(* is put somewhere into it.                                               *)
EXTENDS Startup

LOCAL Line(text) == [text |-> text, more |-> FALSE, fits |-> TRUE]
LOCAL Goes(text) == [text |-> text, more |-> TRUE, fits |-> TRUE]
LOCAL Header(name) == Line(<<"[", name, "]">>)
LOCAL Pair(key, value) == Line(<<key, "=", value>>)

LOCAL Complete(tls, log, login) ==
  << Header("info"), Pair("port", "1884"), Pair("tls", tls), Pair("key", "k.pem"),
     Pair("cert", "c.pem"), Header("log"), Pair("log", log), Pair("log_file", "log.txt"),
     Header("login"), Pair("anonymously", login), Pair("control_type", "test"),
     Header("control"), Pair("dir", "lib") >>

LOCAL Extra ==
  { Line(<<"#", "tls">>), Goes(<<"#", "tls">>), Goes(<<"tls", "=">>),
    Line(<<"[", "]">>), Line(<<"PORT", "=", "0", "#", "1884">>),
    Line(<<"key", "=", "quote", "a", "#", "b", "quote">>), Line(<<"dir", "=">>),
    Line(<<"tls">>), Line(<<"tls", "=", "on">>), Pair("tls", "true"),
    Line(<<"[", "info", ":", "tls", "]">>), Pair("control_type", "NULL"),
    [text |-> <<"#">>, more |-> FALSE, fits |-> FALSE] }

LOCAL Whole == {Complete(t, l, a) : t \in {"true", "no"}, l \in {"yes", "0"},
                                    a \in {"true", "false"}}
LOCAL One == {Complete("true", "yes", "true"), Complete("no", "yes", "false")}

FilesUsed ==
  Whole \cup {RemoveAt(f, i) : f \in One, i \in 1..13}
        \cup {InsertAt(f, i, x) : f \in One, i \in {1, 4, 6, 11, 14}, x \in Extra}

TokenUsed == UNION {UNION {Range(f[i].text) : i \in DOMAIN f} : f \in FilesUsed}
InitialUsed == [w \in {"info", "log", "login", "control"} |->
                  IF w = "info" THEN "i" ELSE IF w = "control" THEN "c" ELSE "l"]
LowerCaseUsed == [w \in {"PORT"} |-> "port"]
NumberUsed == [w \in {"0", "1884"} |-> IF w = "0" THEN 0 ELSE 1884]
=============================================================================
