------------------------------ MODULE Checkers ------------------------------
(***************************************************************************)
(* internal/plugins/checkers: the status each checker gives to what it     *)
(* observes.  An observation is a record whose field "ok" says that the    *)
(* probe itself worked: the request was answered, the statistics were      *)
(* read, the certificate was parsed.  Messages and metadata are left out.  *)
(***************************************************************************)
EXTENDS Integers, Sequences

CheckStatuses == {"healthy", "degraded", "failed"}

Status(good) == IF good THEN "healthy" ELSE "failed"

-----------------------------------------------------------------------------
(* Remote endpoints *)

\* BuildFromConfig: zero is "not configured".
ExpectedStatus(configured) == IF configured = 0 THEN 200 ELSE configured

HTTPCheck(configured, response) ==
    Status(response.ok /\ response.code = ExpectedStatus(configured))

TCPCheck(dial) == Status(dial.ok)

-----------------------------------------------------------------------------
(* Usage of the machine, in percent *)

Threshold(configured) == IF configured <= 0 THEN 90 ELSE configured

\* One reading per CPU asked for; none is an error.
CPUCheck(configured, stats) ==
    Status(stats.ok /\ stats.usage # << >> /\ stats.usage[1] <= Threshold(configured))

MemoryCheck(configured, stats) ==
    Status(stats.ok /\ stats.usage <= Threshold(configured))

DiskCheck(configured, stats) ==
    Status(stats.ok /\ stats.usage <= Threshold(configured))

-----------------------------------------------------------------------------
(* Processes *)

\* systemctl is-active: any output but "active", or an exit code, is a failure.
checkSystemdService(unitState) == Status(unitState = "active")

\* Some process whose name contains the configured one; names that cannot be
\* read are passed over.
checkProcessByName(list) == Status(list.ok /\ list.matching > 0)

\* A service name wins over a process name; one of them is required.
ProcessCheck(serviceName, processName, unitState, list) ==
    CASE serviceName -> checkSystemdService(unitState)
      [] ~serviceName /\ processName -> checkProcessByName(list)
      [] OTHER -> "failed"

-----------------------------------------------------------------------------
(* Certificates *)

DaysBeforeExpiry(configured) == IF configured <= 0 THEN 30 ELSE configured

\* Go's conversion of hours/24 to int drops the fraction.
DaysUntilExpiry(hours) == IF hours >= 0 THEN hours \div 24 ELSE -((-hours) \div 24)

\* A certificate with less than a day left counts as failed, not degraded.
CertificateCheck(configured, cert) ==
    LET days == DaysUntilExpiry(cert.hours)
    IN  CASE ~cert.ok -> "failed"
          [] cert.ok /\ days >= DaysBeforeExpiry(configured) -> "healthy"
          [] cert.ok /\ days < DaysBeforeExpiry(configured) /\ days > 0 -> "degraded"
          [] OTHER -> "failed"

-----------------------------------------------------------------------------
(* Docker *)

\* A HEALTHCHECK that is still starting is not unhealthy.
evaluateState(container) ==
    CASE container.state = "running" ->
            IF container.health = "unhealthy" THEN "degraded" ELSE "healthy"
      [] container.state \in {"paused", "restarting", "created"} -> "degraded"
      [] OTHER -> "failed"

DockerContainerCheck(inspected) ==
    IF inspected.ok THEN evaluateState(inspected) ELSE "failed"

evaluateSwarm(swarm) ==
    CASE swarm.state = "active" ->
            IF swarm.error \/ (swarm.managers > 0 /\ swarm.reachable < (swarm.managers + 1) \div 2)
              THEN "degraded" ELSE "healthy"
      [] swarm.state = "pending" -> "degraded"
      [] OTHER -> "failed"

DockerSwarmCheck(info) == IF info.ok THEN evaluateSwarm(info) ELSE "failed"
=============================================================================
