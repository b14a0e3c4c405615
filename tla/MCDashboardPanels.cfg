SPECIFICATION PanelsSpec
CONSTANTS
  MAX_PACKETS = 3
  MAX_PROCESSES = 1
  MAX_ANOMALIES = 1
  MAX_VISIBLE = 1
  MAX_LOGS = 1
  null = null
  WINDOW = 2
  Period = 2
  HealthGap = 3
  Batches <- MCBatches
  Reports <- MCReports
INVARIANT PanelsCurrent
