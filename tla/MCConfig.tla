------------------------------ MODULE MCConfig ------------------------------
(* Constants for Config: no file at all, and a TOML file for each kind of provider. *)
EXTENDS Config, TLC

Toml(s, value) == <<s, "toml">> :> value

Templates == {
    <<>>,
    Toml("kind", "hosted") @@ Toml("api_key", "key"),
    Toml("kind", "whisper_server")}
=============================================================================
