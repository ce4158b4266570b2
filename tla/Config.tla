------------------------------- MODULE Config -------------------------------
(***************************************************************************)
(* load_config_from of src/config.rs: which environments the program       *)
(* starts with.  A setting is what the code's string operations tell of    *)
(* it; an empty value counts as an absent one, but for the base URL, which *)
(* has no default.                                                         *)
(***************************************************************************)

\* PLANISTA_BASE_URL as it stands in the environment.  `path` is "longer"
\* when it is neither absent nor a single slash.
Url == [form: {"empty", "malformed", "url"},
        scheme: {"http", "https", "other", "none"},
        userinfo: BOOLEAN, path: {"none", "slash", "longer"},
        query: BOOLEAN, fragment: BOOLEAN]

\* A positive number that fits its type, or some other text.
Number == {"unset", "positive", "other"}

\* A socket address (with or without its host), a name with a port, blanks.
Address == {"unset", "address", "name", "blank"}

DbPath == {"unset", "path", "blank"}

Environment == [base_url: Url, listen_addr: Address, db_path: DbPath,
                max_plan_bytes: Number, max_plans: Number]

\* http::Uri: a URL without a path has path "/", and a fragment is dropped
\* without an error.
Uri(raw) == [raw EXCEPT !.fragment = FALSE,
                        !.path = IF @ = "none" THEN "slash" ELSE @]

\* Faulty variant: the fragment is looked for in the parsed URL.
normalize_base_url_Parsed(raw) ==
    LET uri == Uri(raw) IN
      /\ raw.form = "url"
      /\ uri.scheme \in {"http", "https"}
      /\ ~uri.userinfo /\ ~uri.query /\ ~uri.fragment
      /\ uri.path = "slash"

\* normalize_base_url returns Ok.
normalize_base_url(raw) ==
    LET uri == Uri(raw) IN
      /\ raw.form # "empty"
      /\ ~raw.fragment
      /\ raw.form # "malformed"
      /\ uri.scheme \in {"http", "https"}
      /\ ~uri.userinfo /\ ~uri.query
      /\ uri.path = "slash"

value_or_default(value, fallback) == IF value = "unset" THEN fallback ELSE value

\* load_config_from returns Ok.
Loads(env) ==
    /\ normalize_base_url(env.base_url)
    /\ env.max_plan_bytes # "other"
    /\ env.max_plans # "other"
    /\ value_or_default(env.listen_addr, "address") # "blank"
    /\ value_or_default(env.db_path, "path") # "blank"

\* What a permalink `{base_url}/{id}` needs: a scheme and a host, nothing
\* that would have to be dropped.
IsOrigin(raw) ==
    /\ raw.form = "url" /\ raw.scheme \in {"http", "https"}
    /\ raw.path # "longer"
    /\ ~(raw.userinfo \/ raw.query \/ raw.fragment)
=============================================================================
