------------------------------ MODULE MCStartup ------------------------------
(* Every environment and every file with one setting beside the required      *)
(* ones, or without those, set to what means something to its conversion,     *)
(* means nothing to it, or lies at the edge of its check.                      *)
EXTENDS Startup, TLC

(* "-1", "0", "nan": the edges of the numeric checks. *)
Numbers == {"-1", "0", "nan", "65536", "443", "443.0"}

MCText ==
  Numbers \cup {"https", "http", "", "false", "No", "off", "key", "other", "true", "stdio", "60.0",
                "120.0", "8000"}

MCWhole == {"-1", "0", "65536", "443", "8000"}
MCHttpsUrl == {"https"}

MCLower == [t \in MCText |-> IF t = "No" THEN "no" ELSE t]

MCNumber ==
  [t \in MCText |->
     CASE t = "-1" -> -1
       [] t = "0" -> 0
       [] t = "nan" -> NaN
       [] t = "65536" -> 65536
       [] t \in {"443", "443.0"} -> 443
       [] t = "8000" -> 8000
       [] t = "60.0" -> 60
       [] t = "120.0" -> 120
       [] OTHER -> Bad]

(* What a setting is set to in the environment and in the file. *)
Texts ==
  [url |-> {"https", "http", ""}, api_key |-> {"key", ""},
   verify_tls |-> {"false", "No", "0", "off", ""}, read_timeout |-> Numbers,
   transport |-> {"http", "off"}, http_port |-> Numbers, confirm_ttl_seconds |-> Numbers]

Value(type, v) == [type |-> type, value |-> v]

Values ==
  [key \in Setting |->
     {Value("str", t) : t \in Texts[key]}
       \cup {Value("bool", b) : b \in BOOLEAN}
       \cup {Value("num", n) : n \in {0, 443, NaN}}]

Name(key) == {EnvName(key), GenericName(key)}

WorkingEnviron == (EnvName("url") :> "https") @@ (EnvName("api_key") :> "key")
WorkingFile == ("url" :> Value("str", "https")) @@ ("api_key" :> Value("str", "key"))

MCEnvirons ==
  {EmptyDict, WorkingEnviron}
    \cup UNION {{(n :> t) @@ e : n \in Name(key), t \in Texts[key],
                                 e \in {EmptyDict, WorkingEnviron}} : key \in Setting}

MCFiles ==
  {EmptyDict, WorkingFile}
    \cup UNION {{(key :> v) @@ f : v \in Values[key], f \in {EmptyDict, WorkingFile}} :
                  key \in Setting}
=============================================================================
