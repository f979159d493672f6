---------------------------- MODULE MCAdminConsole ----------------------------
(* A few settings of each kind, and what a form may submit. *)
EXTENDS AdminConsole, TLC

MCEDITABLE == {"ui_password", "ex_client_token", "ex_base_url", "log_file",
               "public_base_url", "web_host", "web_port", "https_enabled", "https_port"}
MCSECRET_KEYS == {"ui_password", "ex_client_token"}
MCEnv == [k \in MCEDITABLE |->
            CASE k = "ex_client_token" -> "t0"
              [] k \in {"web_port", "https_port"} -> "8080"
              [] k = "https_enabled" -> "false"
              [] OTHER -> ""]
MCUnloadable == {<<"web_port", "x">>, <<"web_port", "">>, <<"https_enabled", "">>}

\* A URL with a bad port or host, a missing directory, a port of somebody else.
MCUnusable == {<<k, "bad">> : k \in {"ex_base_url", "log_file", "public_base_url"}}
                \cup {<<"web_port", "80">>, <<"https_port", "80">>}

\* Passwords, one beside a port that does not load and one beside a URL that
\* does not build; a token the environment has, or not; settings that only a
\* start finds unusable.
MCChanges == { "ui_password" :> "p1",
               "ui_password" :> "p2" @@ "web_port" :> "x",
               "ui_password" :> "p2" @@ "ex_base_url" :> "bad",
               "ui_password" :> "" @@ "ex_client_token" :> "t1" @@ "https_enabled" :> "true",
               "ex_client_token" :> "********" @@ "web_port" :> "80",
               "ex_client_token" :> "t0" @@ "public_base_url" :> "bad" @@ "https_port" :> "80",
               "ex_base_url" :> "" @@ "log_file" :> "bad" }
MCRemovals == {{}, {"ex_client_token"}, {"web_port"}, {"ui_password"}}
===============================================================================
