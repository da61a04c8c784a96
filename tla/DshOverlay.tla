----------------------------- MODULE DshOverlay -----------------------------
(***************************************************************************)
(* The patch queue of web/apply-overlay.mjs as data: what it puts and      *)
(* edits in the dsh tree, in its order.  Of a file only its name is told,  *)
(* of a replacement only its label.                                        *)
(***************************************************************************)
EXTENDS Naturals, Sequences, SequencesExt

Put(files) == <<[op |-> "put", files |-> files, labels |-> <<>>]>>
Patch(file, labels) == <<[op |-> "edit", files |-> {file}, labels |-> labels]>>

\* presets/<p>/agent.cordis.yml is patched by three edits, far apart.
AgentFile(p) == "presets/" \o p \o "/agent.cordis.yml"
ForPresets(ps, label) ==
    FlattenSeq([i \in DOMAIN ps |-> Patch(AgentFile(ps[i]), <<ps[i] \o label>>)])

ShellFiles ==
    Put({"main.ts", "index.html", "privasys-shell.js", "privasys-shell.css",
         "privasys-auth-client.iife.js", "privasys-logo.mini.svg",
         "privasys-harness-logo.svg", "FishLogo.tsx", "BrandWordmark.tsx",
         "brand/index.ts", "PrivasysRows.tsx", "favicon.svg"})

MuxEdits == Patch("gateway/stream-server.ts", <<"binary-frame acceptance">>)

ConnectionEdits ==
    Patch("connection/rpc-host.ts", <<"requestRejection", "authorizeIndex">>)

\* Mutant: one preset is forgotten.
FleetEditsTwo == ForPresets(<<"standard", "ptc">>, " fleet swap")

FleetEdits == ForPresets(<<"standard", "ptc", "cordis">>, " fleet swap")

InventoryEdits == Patch("PluginInventorySettingsTab.tsx", <<"card title by entry id">>)

SaltEdits ==
    Patch("deepseek-llm-api-extensions/types.ts", <<"extension map">>)
    \o Patch("deepseek-llm-api-extensions/index.ts", <<"registry constructor">>)

PersonaEdits == ForPresets(<<"standard", "ptc", "cordis">>, " persona")

ReasoningEdits ==
    Patch("llm-deepseek/translate.ts", <<"reasoning fallback">>)
    \o Patch("llm-deepseek/types.ts", <<"WireDelta reasoning">>)

HeroEdits == Patch("ui-conversation/locales.ts", <<"zh hero", "en hero">>)

TrajectoryEdits ==
    Put({"PrivasysAttestationTab.tsx"})
    \o Patch("TrajectoryTable.tsx",
             <<"tab import", "DetailTab union", "detailTabs branch", "tab panel">>)
    \o Patch("ui-trajectory/locales.ts", <<"zh tab", "en tab">>)

ViewFiles ==
    Put({"brand/attestation-view", "trajectory/attestation-view",
         "PrivasysAttestation.tsx", "privasys-attestation.css"})

GreenfieldEdits ==
    Patch("ui-settings-models/index.ts", <<"onboarding removal">>)
    \o Patch("connection/client/index.ts", <<"fixture removal">>)
    \o Patch("sandbox-policy/index.ts", <<"read-only", "workspace-write", "full-access">>)
    \o Patch("runtime-context.ts", <<"source label">>)
    \o Patch("llm-deepseek/index.ts", <<"provider card">>)

SkillEdits == ForPresets(<<"standard", "ptc", "cordis">>, " skill scoping")

DshQueue ==
    ShellFiles \o MuxEdits \o ConnectionEdits \o FleetEdits \o InventoryEdits
    \o SaltEdits \o PersonaEdits \o ReasoningEdits \o HeroEdits \o TrajectoryEdits
    \o ViewFiles \o GreenfieldEdits \o SkillEdits

\* Replacements that contain the text they replace: their anchor is still there
\* when they have been made.
DshKeepsAnchor ==
    {"reasoning fallback", "tab import", "tab panel", "zh tab", "en tab"}
=============================================================================
