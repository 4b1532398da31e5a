---------------------------- MODULE SeedManifest ----------------------------
(***************************************************************************)
(* The manifest of the demo, services/seed_manifest.py.  A version is the  *)
(* pair of its agent and its name.  Of a tool input only what tells runs   *)
(* apart is kept; reviewers, tasks and prompts are left out.               *)
(***************************************************************************)
EXTENDS Sequences

Support(name) == <<"customer_support", name>>
Research(name) == <<"research", name>>
Finance(name) == <<"finance", name>>

\* The null of source_version_key.
NoSourceVersion == <<"none", "none">>

\* Each agent with its v1 and v2.
AgentSeeds ==
    <<Support("baseline"), Support("escalation_ready"),
      Research("baseline"), Research("deep_research"),
      Finance("baseline"), Finance("reporting")>>

RunSeed(key, version, tool, input, review) ==
    [key |-> key, input |-> [version |-> version, tool |-> tool, input |-> input], review |-> review]
\* The tool of the run is allowed, or denied; or it waits for a review for ever.
Unreviewed(key, version, tool, input) == RunSeed(key, version, tool, input, "none")
Left(key, version, tool, input) == RunSeed(key, version, tool, input, "left")

ApprovalSeeds == <<
    RunSeed("support_email_approval_01", Support("baseline"), "email", "request", "APPROVED"),
    RunSeed("support_terminal_approval_02", Support("escalation_ready"), "terminal", "summary", "APPROVED"),
    RunSeed("research_email_approval_03", Research("baseline"), "email", "synthesis", "APPROVED"),
    RunSeed("finance_terminal_approval_04", Finance("baseline"), "terminal", "publish", "REJECTED"),
    RunSeed("finance_email_approval_05", Finance("reporting"), "email", "package", "REJECTED")>>

GeneralSeeds == <<
    Unreviewed("support_browser_success_01", Support("baseline"), "browser", "article"),
    Unreviewed("support_browser_success_02", Support("baseline"), "browser", "refund"),
    Unreviewed("support_browser_blocked_03", Support("baseline"), "browser", "retention"),
    Unreviewed("support_browser_failed_04", Support("baseline"), "browser", "fail-tool"),
    Unreviewed("support_file_success_05", Support("baseline"), "file", "pyproject.toml"),
    Unreviewed("research_browser_success_06", Research("baseline"), "browser", "guide"),
    Unreviewed("research_browser_success_07", Research("baseline"), "browser", "notes"),
    Unreviewed("research_browser_blocked_08", Research("baseline"), "browser", "confidential"),
    Unreviewed("research_browser_failed_09", Research("baseline"), "browser", "fail-tool"),
    Unreviewed("research_file_success_10", Research("baseline"), "file", "pyproject.toml"),
    Unreviewed("finance_file_success_11", Finance("baseline"), "file", "pyproject.toml"),
    Unreviewed("finance_file_success_12", Finance("baseline"), "file", "app/main.py"),
    Unreviewed("finance_browser_success_13", Finance("baseline"), "browser", "checklist"),
    Unreviewed("finance_browser_blocked_14", Finance("baseline"), "browser", "ledger"),
    Unreviewed("finance_browser_failed_15", Finance("baseline"), "browser", "fail-tool"),
    Unreviewed("finance_file_success_16", Finance("baseline"), "file", "alembic.ini"),
    Unreviewed("support_browser_success_17", Support("escalation_ready"), "browser", "onboarding"),
    Left("research_terminal_failed_18", Research("deep_research"), "terminal", "fail-tool"),
    Unreviewed("research_terminal_blocked_19", Research("deep_research"), "terminal", "executive"),
    Unreviewed("finance_browser_success_20", Finance("reporting"), "browser", "expenses"),
    Unreviewed("finance_browser_success_21", Finance("reporting"), "browser", "budget"),
    Unreviewed("support_file_failed_22", Support("escalation_ready"), "file", "missing-file.txt")>>

EvaluationRunSeeds == <<
    Unreviewed("evaluation_support_baseline", Support("baseline"), "browser", "evaluation"),
    Unreviewed("evaluation_research_baseline", Research("baseline"), "browser", "evaluation"),
    Left("evaluation_research_deep_research", Research("deep_research"), "terminal", "evaluation"),
    Unreviewed("evaluation_finance_baseline", Finance("baseline"), "file", "pyproject.toml")>>

AllRunSeeds == ApprovalSeeds \o GeneralSeeds \o EvaluationRunSeeds

AllEvaluationSeeds ==
    <<Support("baseline"), Research("baseline"), Research("deep_research"), Finance("baseline")>>

DeploymentSeed(action, source, target) == [action |-> action, source |-> source, target |-> target]

AllDeploymentSeeds == <<
    DeploymentSeed("PROMOTE", NoSourceVersion, Support("baseline")),
    DeploymentSeed("DEPRECATE", Support("escalation_ready"), Support("escalation_ready")),
    DeploymentSeed("PROMOTE", NoSourceVersion, Research("baseline")),
    DeploymentSeed("PROMOTE", Research("baseline"), Research("deep_research")),
    DeploymentSeed("ROLLBACK", Research("deep_research"), Research("baseline")),
    DeploymentSeed("DEPRECATE", Research("deep_research"), Research("deep_research")),
    DeploymentSeed("PROMOTE", NoSourceVersion, Finance("baseline"))>>
=============================================================================
