SPECIFICATION FairDelivery
CONSTANTS
  Logs = {l1}
  Workers = {w1, w2}
  MaxRetries = 1
  MaxAttempts = 1
  MailSeen = {"on", "off"}
  MaxQueue = 1
  MaxTroubles = 3
INVARIANTS DeliveryTypeOK SentIsReached NothingForgotten
PROPERTY NoticesSettle
CHECK_DEADLOCK FALSE
