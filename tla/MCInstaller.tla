----------------------------- MODULE MCInstaller -----------------------------
(* Four components of MVPGraph, three files, and the commands of a user who  *)
(* installs the full preset, part of it or Engram for one agent, and syncs.  *)
EXTENDS Installer

MCComponent == {"engram", "persona", "sdd", "skills"}
MCAlphabetical == <<"engram", "persona", "sdd", "skills">>
MCDependencies ==
  [c \in MCComponent |->
     CASE c = "sdd" -> {"engram"} [] c = "skills" -> {"sdd"} [] OTHER -> {}]
MCSoftPairs == << <<"persona", "engram">>, <<"persona", "sdd">> >>
MCFiles ==
  [c \in MCComponent |->
     CASE c = "engram" -> {"prompt", "settings"} [] c = "skills" -> {"settings"}
       [] OTHER -> {"prompt"}]
\* The agent's prompt is replaced, not marked: Engram writes it unlisted.
MCPaths == [MCFiles EXCEPT !.engram = {"settings"}]

\* ComponentsForPreset puts the persona last.
FullGentleman == <<"engram", "sdd", "skills", "persona">>
MCSyncDefault == <<"persona", "sdd", "engram", "skills">>

Request(kind, components, persona, codegraph, explicit) ==
  [kind |-> kind, components |-> components, persona |-> persona,
   codegraph |-> codegraph, explicit |-> explicit]

MCCommand ==
  {Request("install", FullGentleman, "gentleman", TRUE, FALSE),
   Request("tui", <<"sdd", "persona">>, "neutral", FALSE, FALSE),
   Request("add", <<"engram">>, "custom", FALSE, TRUE),
   Request("sync", <<>>, "custom", FALSE, FALSE)}

=============================================================================
