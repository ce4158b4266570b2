----------------------------- MODULE MCStartup -----------------------------
(* Instances of Startup for TLC. *)
EXTENDS Startup_proofs

Plain == [form |-> "url", scheme |-> "https", userinfo |-> FALSE, path |-> "none",
          query |-> FALSE, fragment |-> FALSE]

Default == [base_url |-> Plain, listen_addr |-> "unset", db_path |-> "unset",
            max_plan_bytes |-> "unset", max_plans |-> "unset"]

\* The default and a full environment, and each way to spoil the default.
SomeSettings ==
    {Default,
     [base_url |-> [Plain EXCEPT !.scheme = "http", !.path = "slash"],
      listen_addr |-> "address", db_path |-> "path",
      max_plan_bytes |-> "positive", max_plans |-> "positive"]}
        \cup {[Default EXCEPT !.base_url = url] : url \in
                {[Plain EXCEPT !.form = "empty"], [Plain EXCEPT !.form = "malformed"],
                 [Plain EXCEPT !.scheme = "other"], [Plain EXCEPT !.scheme = "none"],
                 [Plain EXCEPT !.userinfo = TRUE], [Plain EXCEPT !.path = "longer"],
                 [Plain EXCEPT !.query = TRUE], [Plain EXCEPT !.fragment = TRUE]}}
        \cup {[Default EXCEPT !.listen_addr = a] : a \in {"name", "blank"}}
        \cup {[Default EXCEPT !.db_path = "blank"],
              [Default EXCEPT !.max_plan_bytes = "other"],
              [Default EXCEPT !.max_plans = "other"]}
=============================================================================
